---- MODULE Spec2Model ----
(***************************************************************************)
(* Session engine of cogs/games.py: the duel, the food guessing game, the  *)
(* culture battle and the leaderboard they share.                          *)
(*                                                                         *)
(* The bot runs on one asyncio event loop.  A coroutine runs without       *)
(* interruption until it awaits something that really suspends (a network  *)
(* send, a reply, a sleep); only there can another handler or timer task   *)
(* run.  Each action below is one such uninterrupted stretch of a handler  *)
(* or of a task; the coroutines that are suspended are kept, with their    *)
(* local variables and the place they resume at, in the bag "tasks".       *)
(* Awaiting add_points / get_points never suspends: the bodies that hold   *)
(* _lb_lock contain no await, so the lock is always free when a coroutine  *)
(* asks for it and asyncio.Lock.acquire returns at once.                   *)
(*                                                                         *)
(* Task.cancel() on a suspended (or not yet started) task ends it at once: *)
(* CancelledError is not an Exception, so no "except Exception" of the     *)
(* code catches it, and the timer loops return on it.  Task.cancel() on    *)
(* the running task (a timer loop that reaches its own cancel helper) sets *)
(* must_cancel: the task dies at the next await that suspends.             *)
(***************************************************************************)
EXTENDS Integers, Sequences, FiniteSets, Bags, TLC

VARIABLES now,      \* time.time(), in clock units (Sec units per second)
          duels,    \* GamesCog.duels: ordered dict guild id -> DuelState (index into duel)
          duel,     \* the DuelState objects ever constructed, by identity
          food,     \* GamesCog.food: ordered dict guild id -> FoodState (index into foodst)
          foodst,   \* the FoodState objects ever constructed
          battle,   \* GamesCog.battle: ordered dict guild id -> BattleState (index into battlest)
          battlest, \* the BattleState objects ever constructed
          tasks,    \* bag of suspended coroutines (handlers and timer tasks)
          ledger,   \* leaderboards.json: guild id -> user id -> points
          credit,   \* history: the totals the adjustments made so far add up to,
                    \* applied one after the other in the order they were made
          shuffle,  \* JapanCog.shuffle.bag: category -> the jokes left to serve
          served,   \* history: category -> the jokes served since its last refill
          score     \* the points and the rank in the last reply of myscore

vars == <<now, duels, duel, food, foodst, battle, battlest, tasks, ledger, credit,
          shuffle, served, score>>

----------------------------------------------------------------------------
\* Bounds of the model

MaxTime == 720      \* the clock of the challenges stops here (clock units)
MaxRoundTime == 240 \* the clock of the duel rounds stops here (clock units)
MaxGameTime == 120  \* the clock of the food game and the battle stops here
MaxDuels == 2       \* DuelState objects constructed in one run of challenges
MaxRoundDuels == 1  \* DuelState objects constructed in one run of duel rounds
MaxFoods == 2       \* FoodState objects constructed in one run
MaxBattles == 2     \* BattleState objects constructed in one run
MaxTasks == 3       \* coroutines of the duel suspended at the same time
MaxGameTasks == 2   \* coroutines of the food game or the battle suspended at once
MaxTaskIds == 8     \* task handles in use at the same time
MaxHints == 4       \* hint commands counted in one round
MaxPool == 2        \* questions random.shuffle is let to bring to the front
MaxBank == 2        \* entries of FOOD_BANK random.choice is let to draw
MaxSolveTime == 46  \* the clock of the timed guesses stops here (clock units)
MaxCooldownTime == 6 \* the clock of the rapid guesses stops here (clock units)
MaxBattleTime == 240 \* the clock of the battle nobody answers stops here
MaxJokes == 3       \* jokes of the largest category of the joke library
MaxPoints == 210    \* the largest total a member has when myscore is sent

\* Clock units per second: time.time() is kept to a quarter of a second, the
\* resolution FOOD_GUESS_COOLDOWN = 1.25 needs.
Sec == 4

Guilds == {1, 2}
Users == {1, 2, 3}

\* Inputs tried: who issues a challenge, and the move words sent by direct
\* message (one that ties, wins and loses against the other, and a bad one)
Challengers == {1}
MoveWords == {"strike", "feint", "punch"}
\* the rounds of foodgame (<<given, value>>), who guesses, and what
RoundsArgs == {<<FALSE, 0>>, <<TRUE, 0>>, <<TRUE, 2>>}
Guessers == {1, 2}
GuessWords == {"", "sushi", "Sushi ", "pizza"}
\* who starts a battle and who buzzes, where, and what
Starters == {1}
Buzzers == {1, 2}
Channels == {1, 2}
BuzzWords == {"", "tokyo", " Tokyo!", "kyoto"}
\* the n and the seconds of battle start: <<given, value>>
CountArgs == {<<TRUE, 0>>, <<TRUE, 2>>}
SecondsArgs == {<<FALSE, 0>>}

----------------------------------------------------------------------------
\* Python dict (insertion ordered) as a sequence of [k, v]

DictHas(d, k) == \E i \in 1..Len(d) : d[i].k = k

DictGet(d, k) ==
    IF DictHas(d, k) THEN d[CHOOSE i \in 1..Len(d) : d[i].k = k].v ELSE 0

DictSet(d, k, v) ==
    IF DictHas(d, k)
    THEN [i \in 1..Len(d) |-> IF d[i].k = k THEN [k |-> k, v |-> v] ELSE d[i]]
    ELSE Append(d, [k |-> k, v |-> v])

DictPop(d, k) == SelectSeq(d, LAMBDA e : e.k # k)

----------------------------------------------------------------------------
\* Coroutines

\* A suspended coroutine: what it is (kind), where it resumes (pc), its task
\* handle (id, 0 for a command or message handler, which nothing cancels), and
\* its local variables.  dup is history: set when another resolution applied
\* the moves this one had already read.
Task0 ==
    [kind |-> "", pc |-> "", id |-> 0, gid |-> 0, st |-> 0, who |-> 0,
     forced |-> FALSE, a |-> "none", b |-> "none", elapsed |-> 0, wake |-> 0,
     dup |-> FALSE]

MkTask(kind, pc, id, gid, st) ==
    [Task0 EXCEPT !.kind = kind, !.pc = pc, !.id = id, !.gid = gid, !.st = st]

Suspended == BagToSet(tasks)

\* The coroutines that hold a DuelState, a FoodState, a BattleState in st
DuelKinds == {"on_message", "duelaccept", "round_loop"}
FoodKinds == {"foodgame", "guess", "food_timeout"}
BattleKinds == {"battle_cmd", "buzz", "battle_timer"}

BattleTomb ==
    [channel_id |-> 0, questions_left |-> <<>>, active |-> FALSE,
     started_by |-> 0, current_q |-> 0, asked_at |-> 0, seconds_per_q |-> 0,
     accepting |-> FALSE, buzz_winner_id |-> 0, timer_task |-> 0, claims |-> 0]

FoodTomb ==
    [answer |-> "", started_at |-> 0, active |-> FALSE, rounds_total |-> 0,
     round_index |-> 0, seconds |-> 0, hints_used |-> 0, timer_task |-> 0,
     last_guess_at |-> [u \in Users |-> 0], wins |-> 0, expiries |-> 0, paid |-> 0]

DuelTomb ==
    [challenger_id |-> 0, opponent_id |-> 0, created_at |-> 0, accepted |-> FALSE,
     active |-> FALSE, ch_hp |-> 0, op_hp |-> 0, mode |-> "hp", ch_wins |-> 0,
     op_wins |-> 0, target_wins |-> 0, ch_move |-> "none", op_move |-> "none",
     round_started_at |-> 0, round_task |-> 0, reapplied |-> FALSE,
     awards |-> 0]

\* The program state as one value; self is the handle of the running task and
\* must_cancel its pending cancellation; out is what the step sent last (a
\* reply or an announcement, "-" if nothing); ok turns FALSE when a bound is
\* hit.
Cur ==
    [now |-> now, duels |-> duels, duel |-> duel, food |-> food, foodst |-> foodst,
     battle |-> battle, battlest |-> battlest, tasks |-> tasks, ledger |-> ledger,
     out |-> "-", credit |-> credit, self |-> 0, must_cancel |-> FALSE, ok |-> TRUE]

\* The state in which suspended coroutine t is resumed
Resume(t) == [Cur EXCEPT !.tasks = tasks (-) SetToBag({t}), !.self = t.id]

\* The state S in which coroutine t, suspended in S, is resumed
ResumeIn(S, t) ==
    [S EXCEPT !.tasks = @ (-) SetToBag({t}), !.self = t.id, !.must_cancel = FALSE]

\* A DuelState no dict entry and no coroutine refers to any more is garbage:
\* its fields are forgotten, what history recorded about it is kept.
DuelGarbage(S, st) ==
    /\ \A i \in 1..Len(S.duels) : S.duels[i].v # st
    /\ \A x \in BagToSet(S.tasks) : ~(x.kind \in DuelKinds /\ x.st = st)

BattleGarbage(S, st) ==
    /\ \A i \in 1..Len(S.battle) : S.battle[i].v # st
    /\ \A x \in BagToSet(S.tasks) : ~(x.kind \in BattleKinds /\ x.st = st)

FoodGarbage(S, st) ==
    /\ \A i \in 1..Len(S.food) : S.food[i].v # st
    /\ \A x \in BagToSet(S.tasks) : ~(x.kind \in FoodKinds /\ x.st = st)

Collected(S) ==
    [S EXCEPT !.duel = [st \in DOMAIN @ |->
                          IF DuelGarbage(S, st)
                          THEN [DuelTomb EXCEPT !.reapplied = S.duel[st].reapplied,
                                                !.awards = S.duel[st].awards]
                          ELSE @[st]],
              !.foodst = [st \in DOMAIN @ |->
                            IF FoodGarbage(S, st)
                            THEN FoodTomb ELSE @[st]],
              !.battlest = [st \in DOMAIN @ |->
                              IF BattleGarbage(S, st)
                              THEN BattleTomb ELSE @[st]]]

Commit(S) ==
    /\ S.ok
    /\ now' = S.now
    /\ duels' = S.duels
    /\ duel' = Collected(S).duel
    /\ food' = S.food
    /\ foodst' = Collected(S).foodst
    /\ battle' = S.battle
    /\ battlest' = Collected(S).battlest
    /\ tasks' = S.tasks
    /\ ledger' = S.ledger
    /\ credit' = S.credit
    /\ UNCHANGED <<shuffle, served, score>>

Say(S, text) == [S EXCEPT !.out = text]

TaskLive(S, id) == id = S.self \/ \E x \in BagToSet(S.tasks) : x.id = id

\* Task.cancel()
Cancel(S, id) ==
    IF id = S.self
    THEN [S EXCEPT !.must_cancel = TRUE]
    ELSE [S EXCEPT !.tasks = @ (-) SetToBag({x \in BagToSet(@) : x.id = id})]

\* The running coroutine awaits something that suspends and will resume as t
TaskBound(t) == IF t.kind \in DuelKinds THEN MaxTasks ELSE MaxGameTasks

Await(S, t) ==
    IF S.must_cancel
    THEN S
    ELSE [S EXCEPT !.tasks = @ (+) SetToBag({t}),
                   !.ok = @ /\ BagCardinality(S.tasks) < TaskBound(t)]

UsedIds(S) ==
    {x.id : x \in BagToSet(S.tasks)} \cup {S.self}
    \cup {S.duel[d].round_task : d \in DOMAIN S.duel}
    \cup {S.foodst[f].timer_task : f \in DOMAIN S.foodst}
    \cup {S.battlest[b].timer_task : b \in DOMAIN S.battlest}

FreshId(S) ==
    IF \E i \in 1..MaxTaskIds : i \notin UsedIds(S)
    THEN CHOOSE i \in 1..MaxTaskIds :
            i \notin UsedIds(S) /\ \A j \in 1..(i - 1) : j \in UsedIds(S)
    ELSE 0

\* loop.create_task(coro): the new task starts at its first line when scheduled
CreateTask(S, t) ==
    [S EXCEPT !.tasks = @ (+) SetToBag({t}),
              !.ok = @ /\ t.id # 0 /\ BagCardinality(S.tasks) < TaskBound(t)]

----------------------------------------------------------------------------
\* Leaderboard

get_points(S, g, u) == S.ledger[g][u]

RANKS ==
    << <<0, "Ashigaru">>, <<10, "Ronin">>, <<25, "Samurai">>,
       <<50, "Daimyo">>, <<100, "Shogun">>, <<200, "Legend">> >>

\* a threshold that is reached only when it is passed
reached_strict(points, threshold) == points > threshold

\* rank_title: the test of its loop
reached(points, threshold) == points >= threshold

\* rank_title: its loop from entry i of RANKS on, with the title it holds
RECURSIVE rank_scan(_, _, _)
rank_scan(points, i, title) ==
    IF i > Len(RANKS) THEN title
    ELSE IF reached(points, RANKS[i][1])
         THEN rank_scan(points, i + 1, RANKS[i][2])
         ELSE title

rank_title(points) == rank_scan(points, 1, RANKS[1][2])

\* History only: the serial total of (g, u) after an adjustment took it to v
Adjusted(S, g, u, v) == [S EXCEPT !.credit[g][u] = v]

\* add_points that stores the award in place of the new total
add_points_overwrite(S, g, u, pts) ==
    Adjusted([S EXCEPT !.ledger[g][u] = pts], g, u, S.credit[g][u] + pts)

add_points(S, g, u, pts) ==
    Adjusted([S EXCEPT !.ledger[g][u] = get_points(S, g, u) + pts],
             g, u, S.credit[g][u] + pts)

----------------------------------------------------------------------------
\* Duel

DUEL_MOVES == {"strike", "guard", "feint"}

\* default arguments of _round_loop, as _start_round passes them
RoundTotal == 30
RoundTick == 5
\* the pending window of _duel_expired
DuelWindow == 120

\* duel_resolve with its cycle turned round
duel_resolve_reversed(a_move, b_move) ==
    IF a_move = b_move THEN 0
    ELSE IF <<b_move, a_move>> \in {<<"strike", "feint">>, <<"feint", "guard">>,
                                    <<"guard", "strike">>}
         THEN 1 ELSE 2

duel_resolve(a_move, b_move) ==
    IF a_move = b_move THEN 0
    ELSE LET beats == [m \in DUEL_MOVES |->
                          CASE m = "strike" -> "feint"
                            [] m = "feint" -> "guard"
                            [] m = "guard" -> "strike"]
         IN  IF beats[a_move] = b_move THEN 1 ELSE 2

\* awards is history: the end-of-duel awards made for the duel.
\* reapplied is history: a resolution changed the counters with moves that
\* another resolution had already applied
DuelState(challenger_id, opponent_id, created_at, mode) ==
    [challenger_id |-> challenger_id, opponent_id |-> opponent_id,
     created_at |-> created_at, accepted |-> FALSE, active |-> FALSE,
     ch_hp |-> 3, op_hp |-> 3, mode |-> mode, ch_wins |-> 0, op_wins |-> 0,
     target_wins |-> 2, ch_move |-> "none", op_move |-> "none",
     round_started_at |-> 0, round_task |-> 0, reapplied |-> FALSE,
     awards |-> 0]

\* the window over one clock unit early
_duel_expired_early(S, st) == (S.now - S.duel[st].created_at) >= DuelWindow * Sec

\* a window that is never over
_duel_expired_never(S, st) == S.now < S.duel[st].created_at

_duel_expired(S, st) == (S.now - S.duel[st].created_at) > DuelWindow * Sec

\* _cancel_round_timer that forgets the task without cancelling it
_cancel_round_timer_forget(S, st) == [S EXCEPT !.duel[st].round_task = 0]

_cancel_round_timer(S, st) ==
    LET t == S.duel[st].round_task
        S1 == [S EXCEPT !.duel[st].round_task = 0]
    IN  IF t # 0 /\ TaskLive(S1, t) THEN Cancel(S1, t) ELSE S1

\* _start_round up to its announcement; me is the coroutine that called it
_start_round(S, gid, st, me) ==
    LET S1 == [S EXCEPT !.duel[st].ch_move = "none",
                        !.duel[st].op_move = "none",
                        !.duel[st].round_started_at = S.now]
    IN  Await(Say(S1, "new_round"), [me EXCEPT !.pc = "start_round"])

\* _start_round after its announcement
start_round_timer(S, gid, st) ==
    LET S1 == _cancel_round_timer(S, st)
        id == FreshId(S1)
    IN  CreateTask([S1 EXCEPT !.duel[st].round_task = id],
                   MkTask("round_loop", "top", id, gid, st))

\* _check_duel_end; its closing announcement is followed by nothing
_check_duel_end(S, gid, st) ==
    LET d == S.duel[st]
        winner_id ==
            IF d.mode = "bo3"
            THEN IF d.ch_wins >= d.target_wins THEN d.challenger_id
                 ELSE IF d.op_wins >= d.target_wins THEN d.opponent_id ELSE 0
            ELSE IF d.ch_hp <= 0 THEN d.opponent_id
                 ELSE IF d.op_hp <= 0 THEN d.challenger_id ELSE 0
        loser_id ==
            IF winner_id = d.challenger_id THEN d.opponent_id ELSE d.challenger_id
    IN  IF winner_id = 0
        THEN [S |-> S, ended |-> FALSE]
        ELSE LET S1 == _cancel_round_timer([S EXCEPT !.duels = DictPop(@, gid),
                                                     !.duel[st].awards = @ + 1], st)
                 S2 == add_points(S1, gid, winner_id, 3)
                 S3 == add_points(S2, gid, loser_id, 1)
             IN  [S |-> Say(S3, "duel_over"), ended |-> TRUE]

\* _resolve_round up to its first announcement
_resolve_round(S, gid, st, forced, me) ==
    LET S1 == _cancel_round_timer(S, st)
        a == S1.duel[st].ch_move
        b == S1.duel[st].op_move
        k == [me EXCEPT !.forced = forced, !.a = a, !.b = b]
    IN  IF forced /\ (a = "none" \/ b = "none")
        THEN IF a = "none" /\ b = "none"
             THEN Await(Say(S1, "expired_nobody"), [k EXCEPT !.pc = "res_nomoves"])
             ELSE Await(Say(S1, "expired_forfeit"), [k EXCEPT !.pc = "res_forfeit"])
        ELSE IF a = "none" \/ b = "none"
             THEN S1
             ELSE Await(Say(S1, "reveal"), [k EXCEPT !.pc = "res_reveal"])

\* History only: the moves of duel st have been applied; every other
\* resolution that already read them is marked, and so is the duel when a
\* marked resolution changes the counters
Applied(S, st, me, changed) ==
    LET mark(x) == IF x.st = st /\ x.pc \in {"res_forfeit", "res_reveal"}
                   THEN [x EXCEPT !.dup = TRUE] ELSE x
    IN  [S EXCEPT !.tasks = IF changed THEN BagOfAll(mark, @) ELSE @,
                  !.duel[st].reapplied = @ \/ (changed /\ me.dup)]

\* the loss of a round charged to the winner's side
round_lost_swapped(S, st, challenger_loses) ==
    IF challenger_loses
    THEN IF S.duel[st].mode = "bo3"
         THEN [S EXCEPT !.duel[st].ch_wins = @ + 1]
         ELSE [S EXCEPT !.duel[st].op_hp = @ - 1]
    ELSE IF S.duel[st].mode = "bo3"
         THEN [S EXCEPT !.duel[st].op_wins = @ + 1]
         ELSE [S EXCEPT !.duel[st].ch_hp = @ - 1]

\* _resolve_round: the loss of a round, by forfeit or by the moves
round_lost(S, st, challenger_loses) ==
    IF challenger_loses
    THEN IF S.duel[st].mode = "bo3"
         THEN [S EXCEPT !.duel[st].op_wins = @ + 1]
         ELSE [S EXCEPT !.duel[st].ch_hp = @ - 1]
    ELSE IF S.duel[st].mode = "bo3"
         THEN [S EXCEPT !.duel[st].ch_wins = @ + 1]
         ELSE [S EXCEPT !.duel[st].op_hp = @ - 1]

\* _resolve_round after its first announcement, up to _check_duel_end: the
\* counters are updated and the move slots cleared
resolve_counters(S, t) ==
    LET st == t.st
        outcome == duel_resolve(t.a, t.b)
        challenger_loses ==
            IF t.pc = "res_forfeit" THEN t.a = "none" ELSE outcome = 2
        changed == t.pc = "res_forfeit" \/ outcome # 0
        S1 == IF ~changed THEN S ELSE round_lost(S, st, challenger_loses)
        S2 == [S1 EXCEPT !.duel[st].ch_move = "none", !.duel[st].op_move = "none"]
    IN  Applied(S2, st, t, changed)

\* _resolve_round after its first announcement
resolve_resume(S, t) ==
    LET gid == t.gid
        st == t.st
        E == _check_duel_end(resolve_counters(S, t), gid, st)
    IN  IF t.pc = "res_nomoves"
        THEN _start_round(S, gid, st, t)
        ELSE IF E.ended THEN E.S ELSE _start_round(E.S, gid, st, t)

\* add_points when _ensure_storage, _load_lb or _save_lb raises: the file is
\* replaced by os.replace as the last statement, so the stored totals stay
add_points_raised(S, g, u, pts) == S

\* _check_duel_end of a duel that has a winner when the score store fails in
\* its first call of add_points (done = 0) or in its second (done = 1); the
\* exception leaves _check_duel_end, _resolve_round and their caller
check_duel_end_raised(S, gid, st, done) ==
    LET d == S.duel[st]
        winner_id ==
            IF d.mode = "bo3"
            THEN IF d.ch_wins >= d.target_wins THEN d.challenger_id ELSE d.opponent_id
            ELSE IF d.ch_hp <= 0 THEN d.opponent_id ELSE d.challenger_id
        loser_id ==
            IF winner_id = d.challenger_id THEN d.opponent_id ELSE d.challenger_id
        S1 == _cancel_round_timer([S EXCEPT !.duels = DictPop(@, gid)], st)
    IN  IF done = 0
        THEN add_points_raised(S1, gid, winner_id, 3)
        ELSE add_points_raised(add_points(S1, gid, winner_id, 3), gid, loser_id, 1)

\* a move slot that always reads as empty
submitted_never(S, st, author) == "none"

\* on_message: the move slot of the author, who is one of the two of duel st
submitted(S, st, author) ==
    IF author = S.duel[st].challenger_id
    THEN S.duel[st].ch_move ELSE S.duel[st].op_move

\* on_message, for a direct message whose text is a move command with this
\* move word (after _strip_move), up to the acknowledgement
on_message(S, author, move) ==
    LET hits == {i \in 1..Len(S.duels) :
                    /\ S.duel[S.duels[i].v].active
                    /\ author \in {S.duel[S.duels[i].v].challenger_id,
                                   S.duel[S.duels[i].v].opponent_id}}
        first == CHOOSE i \in hits : \A j \in hits : i <= j
        gid == S.duels[first].k
        st == S.duels[first].v
        ack == MkTask("on_message", "ack", 0, gid, st)
    IN  IF move \notin DUEL_MOVES THEN Say(S, "move_invalid")
        ELSE IF hits = {} THEN Say(S, "move_no_duel")
        ELSE IF author = S.duel[st].challenger_id
             THEN IF submitted(S, st, author) # "none" THEN Say(S, "move_already")
                  ELSE Await(Say([S EXCEPT !.duel[st].ch_move = move], "move_received"), ack)
             ELSE IF submitted(S, st, author) # "none" THEN Say(S, "move_already")
                  ELSE Await(Say([S EXCEPT !.duel[st].op_move = move], "move_received"), ack)

\* on_message after the acknowledgement
on_message_ack(S, t) ==
    IF S.duel[t.st].ch_move # "none" /\ S.duel[t.st].op_move # "none"
    THEN _resolve_round(S, t.gid, t.st, FALSE, t)
    ELSE S

\* duel command; opponent 0 is a missing argument
duel_cmd(S, gid, author, opponent, mode) ==
    LET existing == DictGet(S.duels, gid)
        duel_mode == IF mode = "bo3" THEN "bo3" ELSE "hp"
        st == Len(S.duel) + 1
    IN  IF opponent = 0 THEN Say(S, "duel_usage")
        ELSE IF opponent = author THEN Say(S, "duel_self")
        ELSE IF existing # 0 /\ (S.duel[existing].active \/ ~_duel_expired(S, existing))
             THEN Say(S, "duel_busy")
             ELSE Say([S EXCEPT !.duel = Append(@, DuelState(author, opponent, S.now, duel_mode)),
                                !.duels = DictSet(@, gid, st)],
                      "duel_challenge")

\* duelaccept that does not turn away the accept of an active duel
duelaccept_again(S, gid, author) ==
    LET st == DictGet(S.duels, gid)
    IN  IF st = 0 THEN Say(S, "accept_none")
        ELSE IF author # S.duel[st].opponent_id THEN Say(S, "accept_not_opponent")
        ELSE Await(Say([S EXCEPT !.duel[st].accepted = TRUE,
                                 !.duel[st].active = TRUE,
                                 !.duel[st].ch_hp = 3, !.duel[st].op_hp = 3,
                                 !.duel[st].ch_wins = 0, !.duel[st].op_wins = 0,
                                 !.duel[st].ch_move = "none",
                                 !.duel[st].op_move = "none"],
                       "duel_started"),
                   MkTask("duelaccept", "started", 0, gid, st))

\* duelaccept up to the direct messages and the reply
duelaccept(S, gid, author) ==
    LET st == DictGet(S.duels, gid)
    IN  IF st = 0 THEN Say(S, "accept_none")
        ELSE IF S.duel[st].active THEN Say(S, "accept_active")
        ELSE IF _duel_expired(S, st)
             THEN Say([S EXCEPT !.duels = DictPop(@, gid)], "accept_expired")
        ELSE IF author # S.duel[st].opponent_id THEN Say(S, "accept_not_opponent")
        ELSE Await(Say([S EXCEPT !.duel[st].accepted = TRUE,
                                 !.duel[st].active = TRUE,
                                 !.duel[st].ch_hp = 3, !.duel[st].op_hp = 3,
                                 !.duel[st].ch_wins = 0, !.duel[st].op_wins = 0,
                                 !.duel[st].ch_move = "none",
                                 !.duel[st].op_move = "none"],
                       "duel_started"),
                   MkTask("duelaccept", "started", 0, gid, st))

\* dueldecline that takes the word of any member
dueldecline_anyone(S, gid, author) ==
    LET st == DictGet(S.duels, gid)
    IN  IF st = 0 THEN Say(S, "decline_none")
        ELSE Say([S EXCEPT !.duels = DictPop(@, gid)], "duel_declined")

dueldecline(S, gid, author) ==
    LET st == DictGet(S.duels, gid)
    IN  IF st = 0 THEN Say(S, "decline_none")
        ELSE IF author # S.duel[st].opponent_id THEN Say(S, "decline_not_opponent")
        ELSE Say([S EXCEPT !.duels = DictPop(@, gid)], "duel_declined")

duelcancel(S, gid, author) ==
    LET st == DictGet(S.duels, gid)
    IN  IF st = 0 THEN Say(S, "cancel_none")
        ELSE IF author \notin {S.duel[st].challenger_id, S.duel[st].opponent_id}
             THEN Say(S, "cancel_not_participant")
        ELSE Say(_cancel_round_timer([S EXCEPT !.duels = DictPop(@, gid)], st),
                 "duel_canceled")

\* _round_loop from the top of the loop to the timer message
round_loop_top(S, t) ==
    Await(Say(S, "timer"),
          [t EXCEPT !.pc = "post", !.wake = 0,
                    !.elapsed = S.now - S.duel[t.st].round_started_at])

\* _round_loop after the timer message
round_loop_check(S, t) ==
    IF S.duel[t.st].ch_move # "none" /\ S.duel[t.st].op_move # "none"
    THEN _resolve_round(S, t.gid, t.st, FALSE, t)
    ELSE IF t.elapsed >= RoundTotal * Sec
         THEN _resolve_round(S, t.gid, t.st, TRUE, t)
         ELSE Await(S, [t EXCEPT !.pc = "sleep", !.elapsed = 0,
                                 !.wake = S.now + RoundTick * Sec])

----------------------------------------------------------------------------
\* Food game

FOOD_BANK == <<"sushi", "ramen", "pizza", "taco", "burger", "donut", "pancakes",
               "curry", "icecream", "onigiri">>

FOOD_DEFAULT_ROUNDS == 1
FOOD_DEFAULT_SECONDS == 30
\* FOOD_GUESS_COOLDOWN = 1.25 s, in clock units
FOOD_GUESS_COOLDOWN == 5

Max(x, y) == IF x >= y THEN x ELSE y
Min(x, y) == IF x <= y THEN x ELSE y

\* wins, expiries, paid are history: the correct guesses and the timeouts
\* that resolved the round, and the awards made for it
FoodState(answer, started_at, rounds_total, round_index, seconds) ==
    [answer |-> answer, started_at |-> started_at, active |-> TRUE,
     rounds_total |-> rounds_total, round_index |-> round_index,
     seconds |-> seconds, hints_used |-> 0, timer_task |-> 0,
     last_guess_at |-> [u \in Users |-> -FOOD_GUESS_COOLDOWN],
     wins |-> 0, expiries |-> 0, paid |-> 0]

_cancel_food_timer(S, st) ==
    LET t == S.foodst[st].timer_task
        S1 == [S EXCEPT !.foodst[st].timer_task = 0]
    IN  IF t # 0 /\ TaskLive(S1, t) THEN Cancel(S1, t) ELSE S1

\* _start_next_food_round up to its announcement, for the entry of FOOD_BANK
\* that random.choice draws; me is the coroutine that called it
_start_next_food_round(S, gid, rounds_total, next_round, seconds, choice, me) ==
    LET st == Len(S.foodst) + 1
        S1 == [S EXCEPT !.foodst = Append(@, FoodState(FOOD_BANK[choice], S.now,
                                             rounds_total, next_round, seconds)),
                        !.food = DictSet(@, gid, st),
                        !.ok = @ /\ Len(S.foodst) < MaxFoods]
    IN  Await(Say(S1, "food_round"), [me EXCEPT !.pc = "food_round", !.st = st])

\* _start_next_food_round after its announcement; _food_timeout starts by
\* sleeping st.seconds
food_round_timer(S, gid, st) ==
    LET S1 == _cancel_food_timer(S, st)
        id == FreshId(S1)
    IN  CreateTask([S1 EXCEPT !.foodst[st].timer_task = id],
                   [MkTask("food_timeout", "sleep", id, gid, st)
                        EXCEPT !.wake = S.now + S.foodst[st].seconds * Sec])

\* _food_timeout after its sleep
_food_timeout(S, t) ==
    LET gid == t.gid
        st == t.st
        cur == DictGet(S.food, gid)
        S1 == [S EXCEPT !.foodst[st].active = FALSE,
                        !.foodst[st].expiries = @ + 1]
    IN  IF cur = 0 \/ cur # st \/ ~S.foodst[st].active THEN S
        ELSE IF S.foodst[st].round_index < S.foodst[st].rounds_total
             THEN Await(Say(S1, "food_time"), [t EXCEPT !.pc = "next_round"])
             ELSE Say(S1, "food_time")

\* the next round dealt with the index of the round before it
food_next_round_same(S, t, choice) ==
    _start_next_food_round(S, t.gid, S.foodst[t.st].rounds_total,
                           S.foodst[t.st].round_index, S.foodst[t.st].seconds,
                           choice, t)

\* the next round, one second after a timeout or a correct guess
food_next_round(S, t, choice) ==
    _start_next_food_round(S, t.gid, S.foodst[t.st].rounds_total,
                           S.foodst[t.st].round_index + 1, S.foodst[t.st].seconds,
                           choice, t)

\* foodgame; given tells whether the rounds argument is there
foodgame(S, gid, given, rounds, choice) ==
    LET existing == DictGet(S.food, gid)
        S1 == IF existing # 0 /\ S.foodst[existing].active
              THEN _cancel_food_timer(S, existing) ELSE S
        rt == IF ~given THEN FOOD_DEFAULT_ROUNDS ELSE Max(1, Min(rounds, 20))
    IN  _start_next_food_round(S1, gid, rt, 1, FOOD_DEFAULT_SECONDS, choice,
                               MkTask("foodgame", "", 0, gid, 0))

foodstop(S, gid) ==
    LET st == DictGet(S.food, gid)
    IN  IF st = 0 \/ ~S.foodst[st].active THEN Say(S, "food_none")
        ELSE Say(_cancel_food_timer([S EXCEPT !.foodst[st].active = FALSE], st),
                 "food_stopped")

\* hint that also gives the round its time again
hint_restart(S, gid) ==
    LET st == DictGet(S.food, gid)
    IN  IF st = 0 \/ ~S.foodst[st].active THEN Say(S, "food_none")
        ELSE Say([S EXCEPT !.foodst[st].hints_used = @ + 1,
                           !.foodst[st].started_at = S.now + 1], "food_hint")

hint(S, gid) ==
    LET st == DictGet(S.food, gid)
    IN  IF st = 0 \/ ~S.foodst[st].active THEN Say(S, "food_none")
        ELSE Say([S EXCEPT !.foodst[st].hints_used = @ + 1], "food_hint")

\* the guess compared as it was typed
StripLower_raw(answer) == answer

\* str.strip().lower() on the guesses that are tried
StripLower(answer) ==
    CASE answer = "Sushi " -> "sushi"
      [] answer = " RAMEN" -> "ramen"
      [] OTHER -> answer

\* the points of a correct guess
guess_points(S, st, t) ==
    LET elapsed == Max(1, (t - S.foodst[st].started_at) \div Sec)
        speed_bonus == IF elapsed <= 10 THEN 1 ELSE 0
        hint_penalty == Min(S.foodst[st].hints_used, 2)
    IN  Max(1, 2 + speed_bonus - hint_penalty)

\* a correct guess resolves the round, without closing it
guess_resolve_open(S, st) ==
    _cancel_food_timer([S EXCEPT !.foodst[st].wins = @ + 1], st)

\* a correct guess resolves the round
guess_resolve(S, st) ==
    _cancel_food_timer([S EXCEPT !.foodst[st].active = FALSE,
                                !.foodst[st].wins = @ + 1], st)

\* a cooldown that counts from the last guess of any member
last_guess_anyone(S, st, author) ==
    LET at == S.foodst[st].last_guess_at
    IN  at[CHOOSE u \in Users : \A v \in Users : at[v] <= at[u]]

\* guess: st.last_guess_at.get(author, 0.0)
last_guess(S, st, author) == S.foodst[st].last_guess_at[author]

\* guess with the right answer when the score store fails in add_points: the
\* exception leaves the command after the round was closed
guess_raised(S, gid, author) ==
    LET st == DictGet(S.food, gid)
        S1 == [S EXCEPT !.foodst[st].last_guess_at[author] = S.now]
        S2 == guess_resolve(S1, st)
    IN  add_points_raised(S2, gid, author, guess_points(S2, st, S.now))

\* guess; answer "" is a missing argument
guess(S, gid, author, answer) ==
    LET st == DictGet(S.food, gid)
        t == S.now
        last == last_guess(S, st, author)
        S1 == [S EXCEPT !.foodst[st].last_guess_at[author] = t]
        S2 == guess_resolve(S1, st)
        S3 == add_points(S2, gid, author, guess_points(S2, st, t))
        S4 == Say([S3 EXCEPT !.foodst[st].paid = @ + 1], "food_correct")
    IN  IF st = 0 \/ ~S.foodst[st].active THEN Say(S, "food_none")
        ELSE IF answer = "" THEN Say(S, "guess_usage")
        ELSE IF (t - last) < FOOD_GUESS_COOLDOWN THEN S
        ELSE IF StripLower(answer) = S.foodst[st].answer
             THEN IF S.foodst[st].round_index < S.foodst[st].rounds_total
                  THEN Await(S4, MkTask("guess", "next_round", 0, gid, st))
                  ELSE S4
             ELSE Say(S1, "food_nope")

----------------------------------------------------------------------------
\* Culture battle

\* the answers of CULTURE_Q; a question is its index here, 0 is None
CULTURE_Q == <<"tokyo", "shinkansen", "samurai", "yen", "fuji", "matcha">>

CULTURE_DEFAULT_Q == 5
CULTURE_DEFAULT_SECONDS == 20
BattleTick == 5

\* the answer compared as it was typed
_norm_raw(s) == s

\* _norm on the answers that are tried
_norm(s) ==
    CASE s = " Tokyo!" -> "tokyo"
      [] s = "shin-kansen" -> "shinkansen"
      [] OTHER -> s

\* claims is history: the buzzes accepted for the current question
BattleState(channel_id, questions_left, started_by, seconds_per_q) ==
    [channel_id |-> channel_id, questions_left |-> questions_left,
     active |-> TRUE, started_by |-> started_by, current_q |-> 0,
     asked_at |-> 0, seconds_per_q |-> seconds_per_q, accepting |-> FALSE,
     buzz_winner_id |-> 0, timer_task |-> 0, claims |-> 0]

\* what random.shuffle makes of CULTURE_Q: one of the first MaxPool questions
\* comes to the front, the others keep their order
Shuffles ==
    {[i \in 1..Len(CULTURE_Q) |-> IF i = 1 THEN f
                                   ELSE IF i <= f THEN i - 1 ELSE i] :
        f \in 1..MaxPool}

_cancel_battle_timer(S, st) ==
    LET t == S.battlest[st].timer_task
        S1 == [S EXCEPT !.battlest[st].timer_task = 0]
    IN  IF t # 0 /\ TaskLive(S1, t) THEN Cancel(S1, t) ELSE S1

\* _ask_next_question up to its announcement; me is the coroutine that called it
_ask_next_question(S, gid, me) ==
    LET st == DictGet(S.battle, gid)
        S1 == _cancel_battle_timer(S, st)
        left == S1.battlest[st].questions_left
        S2 == [S1 EXCEPT !.battlest[st].active = FALSE,
                         !.battlest[st].current_q = 0,
                         !.battlest[st].accepting = FALSE,
                         !.battlest[st].buzz_winner_id = 0]
        S3 == [S1 EXCEPT !.battlest[st].current_q = Head(left),
                         !.battlest[st].questions_left = Tail(left),
                         !.battlest[st].asked_at = S.now,
                         !.battlest[st].accepting = TRUE,
                         !.battlest[st].buzz_winner_id = 0,
                         !.battlest[st].claims = 0]
    IN  IF st = 0 \/ ~S.battlest[st].active THEN S
        ELSE IF left = <<>> THEN Say(S2, "battle_finished")
        ELSE Await(Say(S3, "question"), [me EXCEPT !.pc = "ask_timer", !.st = st])

\* _ask_next_question after its announcement
ask_timer(S, gid, st) ==
    LET id == FreshId(S)
    IN  CreateTask([S EXCEPT !.battlest[st].timer_task = id],
                   MkTask("battle_timer", "top", id, gid, st))

\* _battle_timer_loop from the head of its loop to the timer message
battle_timer_top(S, t) ==
    LET st == t.st
    IN  IF ~S.battlest[st].active \/ S.battlest[st].current_q = 0 THEN S
        ELSE Await(S, [t EXCEPT !.pc = "post", !.wake = 0,
                                !.elapsed = S.now - S.battlest[st].asked_at])

\* _battle_timeout up to its announcement and the second it sleeps
_battle_timeout(S, t) ==
    LET st == t.st
        S1 == [S EXCEPT !.battlest[st].accepting = FALSE,
                        !.battlest[st].buzz_winner_id = 0]
    IN  IF ~S.battlest[st].active \/ S.battlest[st].current_q = 0 THEN S
        ELSE Await(Say(S1, "battle_time"), [t EXCEPT !.pc = "timeout", !.elapsed = 0])

\* _battle_timer_loop after the timer message
battle_timer_check(S, t) ==
    IF t.elapsed >= S.battlest[t.st].seconds_per_q * Sec
    THEN _battle_timeout(S, t)
    ELSE Await(S, [t EXCEPT !.pc = "sleep", !.elapsed = 0,
                            !.wake = S.now + BattleTick * Sec])

\* battle; n_given and s_given tell whether n and seconds are there
battle_cmd(S, gid, author, channel, action, n_given, n, s_given, seconds, qpool) ==
    LET st == DictGet(S.battle, gid)
        total_q == IF ~n_given THEN CULTURE_DEFAULT_Q ELSE Max(1, Min(n, 50))
        sec == IF ~s_given THEN CULTURE_DEFAULT_SECONDS ELSE Max(8, Min(seconds, 60))
        chosen == SubSeq(qpool, 1, Min(total_q, Len(qpool)))
        new == Len(S.battlest) + 1
        S1 == [S EXCEPT !.battlest = Append(@, BattleState(channel, chosen, author, sec)),
                        !.battle = DictSet(@, gid, new),
                        !.ok = @ /\ Len(S.battlest) < MaxBattles]
    IN  IF action \notin {"start", "stop"} THEN Say(S, "battle_usage")
        ELSE IF action = "stop"
             THEN IF st = 0 \/ ~S.battlest[st].active THEN Say(S, "battle_none")
                  ELSE Say(_cancel_battle_timer(
                               [S EXCEPT !.battlest[st].active = FALSE], st),
                           "battle_stopped")
        ELSE Await(Say(S1, "battle_started"),
                   MkTask("battle_cmd", "started", 0, gid, 0))

\* buzz takes the claim, without leaving it open
claim_kept_open(S, st, author) ==
    [S EXCEPT !.battlest[st].buzz_winner_id = author,
              !.battlest[st].claims = @ + 1]

\* buzz takes the claim
claim(S, st, author) ==
    [S EXCEPT !.battlest[st].accepting = FALSE,
              !.battlest[st].buzz_winner_id = author,
              !.battlest[st].claims = @ + 1]

\* the total after a wrong buzz, without its floor
wrong_points_unfloored(cur_pts) == cur_pts - 1

\* the total after a wrong buzz
wrong_points(cur_pts) == Max(0, cur_pts - 1)

\* buzz; answer "" is a missing argument
buzz(S, gid, author, channel, answer) ==
    LET st == DictGet(S.battle, gid)
        S1 == claim(S, st, author)
        correct == _norm(CULTURE_Q[S.battlest[st].current_q])
        cur_pts == get_points(S1, gid, author)
        new_pts == wrong_points(cur_pts)
        S2 == Adjusted([S1 EXCEPT !.ledger[gid][author] = new_pts],
                       gid, author, Max(0, S.credit[gid][author] - 1))
        me == MkTask("buzz", "next", 0, gid, 0)
    IN  IF st = 0 \/ ~S.battlest[st].active \/ S.battlest[st].current_q = 0
        THEN Say(S, "battle_none")
        ELSE IF channel # S.battlest[st].channel_id THEN S
        ELSE IF answer = "" THEN Say(S, "buzz_usage")
        ELSE IF ~S.battlest[st].accepting THEN S
        ELSE IF _norm(answer) = correct
             THEN Await(Say(add_points(S1, gid, author, 2), "buzz_correct"), me)
             ELSE Await(Say(S2, "buzz_wrong"), me)

\* ctx.reply raises in a command: the exception leaves the command's coroutine,
\* which runs no further statement (on_command_error of bot.py prints it)
reply_raised(S, t) == S

\* the battle timer's coroutine, from where it stands to its next suspension
battle_timer_resume(S, t) ==
    CASE t.pc \in {"top", "sleep"} -> battle_timer_top(S, t)
      [] t.pc = "post" -> battle_timer_check(S, t)
      [] t.pc = "timeout" -> _ask_next_question(S, t.gid, t)
      [] t.pc = "ask_timer" -> ask_timer(S, t.gid, t.st)

----------------------------------------------------------------------------
\* Jokes (cogs/japan.py)

\* JapanCog.joke_library after reload_jokes, which leaves no joke twice in a
\* category: the jokes of a category are numbered, and anime stands for the
\* large categories
joke_library ==
    [c \in {"anime", "dad", "dajare"} |->
        CASE c = "anime" -> [i \in 1..MaxJokes |-> i]
          [] c = "dad" -> <<1, 2>>
          [] c = "dajare" -> <<1>>]

\* what random.shuffle can make of a list of n items: order[i] is the place
\* the i-th item of the result comes from
Orders(n) == {o \in [1..n -> 1..n] : \A i, j \in 1..n : o[i] = o[j] => i = j}

\* list.pop() that leaves the item in the list
list_pop_peek(cur) == [rest |-> cur, item |-> cur[Len(cur)]]

\* list.pop(): the last item, taken off the list
list_pop(cur) == [rest |-> SubSeq(cur, 1, Len(cur) - 1), item |-> cur[Len(cur)]]

\* JokeShuffleBag.next; joke 0 is the reply that the category has no jokes,
\* refilled is history
JokeShuffleBag_next(bag, category, library, order) ==
    LET jokes == IF category \in DOMAIN library THEN library[category] ELSE <<>>
        cur == IF category \in DOMAIN bag THEN bag[category] ELSE <<>>
        filled == IF cur = <<>> THEN [i \in 1..Len(jokes) |-> jokes[order[i]]] ELSE cur
        popped == list_pop(filled)
    IN  IF jokes = <<>>
        THEN [bag |-> bag, joke |-> 0, refilled |-> FALSE]
        ELSE [bag |-> [bag EXCEPT ![category] = popped.rest],
              joke |-> popped.item, refilled |-> cur = <<>>]

----------------------------------------------------------------------------
\* Steps

\* The clock advances by d, up to limit; the sleeps that are over by then have
\* their timer fired (wake 0: the sleeper is ready to run)
Tick(d, limit) ==
    LET fire(x) == IF x.wake <= now + d THEN [x EXCEPT !.wake = 0] ELSE x
    IN  /\ now + d <= limit
        /\ Commit([Cur EXCEPT !.now = now + d, !.tasks = BagOfAll(fire, @)])

\* At most max DuelState objects are constructed
DuelCmd(gid, max) ==
    \E author \in Challengers, opponent \in {0, 1, 2}, mode \in {"", "bo3"} :
        /\ Len(duel_cmd(Cur, gid, author, opponent, mode).duel) <= max
        /\ Commit(duel_cmd(Cur, gid, author, opponent, mode))

DuelAccept(gid) == \E author \in Users : Commit(duelaccept(Cur, gid, author))

DuelDecline(gid) == \E author \in Users : Commit(dueldecline(Cur, gid, author))

DuelCancel(gid) == \E author \in Users : Commit(duelcancel(Cur, gid, author))

OnMessage(words) ==
    \E author \in Users, move \in words :
        Commit(on_message(Cur, author, move))

\* A direct message that arrives when the handlers of the earlier ones are done
OnMessageAlone(words) ==
    /\ \A t \in Suspended : t.kind # "on_message"
    /\ OnMessage(words)

OnMessageAck ==
    \E t \in Suspended :
        /\ t.kind = "on_message" /\ t.pc = "ack"
        /\ Commit(on_message_ack(Resume(t), t))

DuelAcceptStart ==
    \E t \in Suspended :
        /\ t.kind = "duelaccept" /\ t.pc = "started"
        /\ Commit(_start_round(Resume(t), t.gid, t.st, t))

ResolveResume ==
    \E t \in Suspended :
        /\ t.pc \in {"res_nomoves", "res_forfeit", "res_reveal"}
        /\ Commit(resolve_resume(Resume(t), t))

StartRoundTimer ==
    \E t \in Suspended :
        /\ t.pc = "start_round"
        /\ Commit(start_round_timer(Resume(t), t.gid, t.st))

RoundLoopTop ==
    \E t \in Suspended :
        /\ t.kind = "round_loop"
        /\ t.pc = "top" \/ (t.pc = "sleep" /\ t.wake = 0)
        /\ Commit(round_loop_top(Resume(t), t))

RoundLoopCheck ==
    \E t \in Suspended :
        /\ t.kind = "round_loop" /\ t.pc = "post"
        /\ Commit(round_loop_check(Resume(t), t))

FoodGame(gid, args) ==
    \E rounds \in args, choice \in 1..MaxBank :
        Commit(foodgame(Cur, gid, rounds[1], rounds[2], choice))

FoodStop(gid) == Commit(foodstop(Cur, gid))

Hint(gid) ==
    /\ \A st \in DOMAIN foodst : foodst[st].hints_used < MaxHints
    /\ Commit(hint(Cur, gid))

Guess(gid, who, words) ==
    \E author \in who, answer \in words :
        Commit(guess(Cur, gid, author, answer))

FoodRoundTimer ==
    \E t \in Suspended :
        /\ t.pc = "food_round"
        /\ Commit(food_round_timer(Resume(t), t.gid, t.st))

FoodTimeout ==
    \E t \in Suspended :
        /\ t.kind = "food_timeout" /\ t.pc = "sleep" /\ t.wake = 0
        /\ Commit(_food_timeout(Resume(t), t))

FoodNextRound ==
    \E t \in Suspended, choice \in 1..MaxBank :
        /\ t.pc = "next_round"
        /\ Commit(food_next_round(Resume(t), t, choice))

BattleCmd(gid, counts) ==
    \E author \in Starters, action \in {"", "start", "stop"}, n \in counts,
       seconds \in SecondsArgs, qpool \in Shuffles :
        Commit(battle_cmd(Cur, gid, author, 1, action, n[1], n[2],
                          seconds[1], seconds[2], qpool))

Buzz(gid, who, where, words) ==
    \E author \in who, channel \in where, answer \in words :
        Commit(buzz(Cur, gid, author, channel, answer))

AskNextQuestion ==
    \E t \in Suspended :
        /\ \/ t.kind = "battle_cmd" /\ t.pc = "started"
           \/ t.kind = "buzz" /\ t.pc = "next"
           \/ t.kind = "battle_timer" /\ t.pc = "timeout"
        /\ Commit(_ask_next_question(Resume(t), t.gid, t))

AskTimer ==
    \E t \in Suspended :
        /\ t.pc = "ask_timer"
        /\ Commit(ask_timer(Resume(t), t.gid, t.st))

BattleTimerTop ==
    \E t \in Suspended :
        /\ t.kind = "battle_timer"
        /\ t.pc = "top" \/ (t.pc = "sleep" /\ t.wake = 0)
        /\ Commit(battle_timer_top(Resume(t), t))

BattleTimerCheck ==
    \E t \in Suspended :
        /\ t.kind = "battle_timer" /\ t.pc = "post"
        /\ Commit(battle_timer_check(Resume(t), t))

\* The score store fails while the duel that a resolution has just decided
\* is awarded
CheckDuelEndRaised ==
    \E t \in Suspended, done \in {0, 1} :
        /\ t.pc \in {"res_forfeit", "res_reveal"}
        /\ _check_duel_end(resolve_counters(Resume(t), t), t.gid, t.st).ended
        /\ Commit(check_duel_end_raised(resolve_counters(Resume(t), t),
                                        t.gid, t.st, done))

\* The score store fails while a right guess is awarded
GuessRaised(gid, who) ==
    \E author \in who :
        LET st == DictGet(food, gid)
        IN  /\ st # 0 /\ foodst[st].active
            /\ now - foodst[st].last_guess_at[author] >= FOOD_GUESS_COOLDOWN
            /\ Commit(guess_raised(Cur, gid, author))

\* The reply of duelaccept, guess or buzz is not delivered and raises
ReplyRaised ==
    \E t \in Suspended :
        /\ \/ t.kind = "duelaccept" /\ t.pc = "started"
           \/ t.kind = "guess" /\ t.pc = "next_round"
           \/ t.kind = "buzz" /\ t.pc = "next"
        /\ Commit(reply_raised(Resume(t), t))

\* _send_joke for a category of the library: the shuffle bag serves, under
\* jokes_lock
SendJoke ==
    \E category \in DOMAIN joke_library :
        \E order \in Orders(Len(joke_library[category])) :
            LET r == JokeShuffleBag_next(shuffle, category, joke_library, order)
            IN  /\ shuffle' = r.bag
                /\ served' = [served EXCEPT ![category] =
                                  IF r.refilled THEN <<r.joke>> ELSE Append(@, r.joke)]
                /\ UNCHANGED <<now, duels, duel, food, foodst, battle, battlest,
                               tasks, ledger, credit, score>>

\* myscore
Myscore(gid) ==
    \E author \in Users :
        LET pts == get_points(Cur, gid, author)
        IN  /\ score' = [pts |-> pts, title |-> rank_title(pts)]
            /\ UNCHANGED <<now, duels, duel, food, foodst, battle, battlest,
                           tasks, ledger, credit, shuffle, served>>

Init ==
    /\ now = 0
    /\ duels = <<>>
    /\ duel = <<>>
    /\ food = <<>>
    /\ foodst = <<>>
    /\ battle = <<>>
    /\ battlest = <<>>
    /\ tasks = EmptyBag
    /\ ledger = [g \in Guilds |-> [u \in Users |-> 0]]
    /\ credit = [g \in Guilds |-> [u \in Users |-> 0]]
    /\ shuffle = [c \in DOMAIN joke_library |-> <<>>]
    /\ served = [c \in DOMAIN joke_library |-> <<>>]
    /\ score = [pts |-> 0, title |-> ""]

\* The duel of one guild while its rounds' clock stands still
DuelNext ==
    \/ DuelCmd(1, MaxRoundDuels)
    \/ DuelAccept(1)
    \/ DuelDecline(1)
    \/ DuelCancel(1)
    \/ OnMessage(MoveWords)
    \/ OnMessageAck
    \/ DuelAcceptStart
    \/ ResolveResume
    \/ StartRoundTimer
    \/ RoundLoopTop
    \/ RoundLoopCheck

DuelSpec == Init /\ [][DuelNext]_vars

\* The duel of one guild with the clock running and one move to send
TimerNext ==
    \/ Tick(RoundTotal * Sec, MaxRoundTime)
    \/ DuelCmd(1, MaxRoundDuels)
    \/ DuelAccept(1)
    \/ DuelDecline(1)
    \/ DuelCancel(1)
    \/ OnMessage({"strike"})
    \/ OnMessageAck
    \/ DuelAcceptStart
    \/ ResolveResume
    \/ StartRoundTimer
    \/ RoundLoopTop
    \/ RoundLoopCheck

TimerSpec == Init /\ [][TimerNext]_vars

\* The rounds of one duel with every move, the direct messages handled one
\* after the other and the clock standing still
RoundNext ==
    \/ DuelCmd(1, MaxRoundDuels)
    \/ DuelAccept(1)
    \/ OnMessageAlone(DUEL_MOVES)
    \/ OnMessageAck
    \/ DuelAcceptStart
    \/ ResolveResume
    \/ StartRoundTimer
    \/ RoundLoopTop
    \/ RoundLoopCheck

RoundSpec == Init /\ [][RoundNext]_vars

\* A duel and a food game of two rounds in one guild, where replies may fail
\* and the clock stands still
DeliveryNext ==
    \/ DuelCmd(1, MaxRoundDuels)
    \/ DuelAccept(1)
    \/ DuelAcceptStart
    \/ StartRoundTimer
    \/ RoundLoopTop
    \/ RoundLoopCheck
    \/ FoodGame(1, {<<TRUE, 2>>})
    \/ Guess(1, {1}, {"sushi", "pizza"})
    \/ FoodNextRound
    \/ FoodRoundTimer
    \/ ReplyRaised

DeliverySpec == Init /\ [][DeliveryNext]_vars

\* The rounds of one duel and a food game of one round in one guild, where
\* the score store may fail; the clock stands still and the round timers,
\* which have nothing to do before it moves, are not scheduled
StoreNext ==
    \/ DuelCmd(1, MaxRoundDuels)
    \/ DuelAccept(1)
    \/ OnMessageAlone({"strike", "guard"})
    \/ OnMessageAck
    \/ DuelAcceptStart
    \/ ResolveResume
    \/ StartRoundTimer
    \/ CheckDuelEndRaised
    \/ FoodGame(1, {<<FALSE, 0>>})
    \/ Guess(1, {1}, {"sushi"})
    \/ FoodRoundTimer
    \/ GuessRaised(1, {1})

StoreSpec == Init /\ [][StoreNext]_vars

\* The duels of two guilds with the same members, while the clock stands
\* still; the moves are all strike, so every round is a tie
TenantNext ==
    \/ \E gid \in Guilds : DuelCmd(gid, MaxDuels)
    \/ \E gid \in Guilds : DuelAccept(gid)
    \/ OnMessageAlone({"strike"})
    \/ OnMessageAck
    \/ DuelAcceptStart
    \/ ResolveResume
    \/ StartRoundTimer

TenantSpec == Init /\ [][TenantNext]_vars

\* The joke command, for each category of the library
JokeNext == SendJoke

JokeSpec == Init /\ [][JokeNext]_vars

\* myscore in a guild whose games are over, for any total of member 1
RankInit ==
    /\ now = 0
    /\ duels = <<>>
    /\ duel = <<>>
    /\ food = <<>>
    /\ foodst = <<>>
    /\ battle = <<>>
    /\ battlest = <<>>
    /\ tasks = EmptyBag
    /\ \E p \in 0..MaxPoints :
          /\ ledger = [g \in Guilds |-> [u \in Users |->
                           IF g = 1 /\ u = 1 THEN p ELSE 0]]
          /\ credit = ledger
    /\ shuffle = [c \in DOMAIN joke_library |-> <<>>]
    /\ served = [c \in DOMAIN joke_library |-> <<>>]
    /\ score = [pts |-> 0, title |-> ""]

RankNext == Myscore(1)

RankSpec == RankInit /\ [][RankNext]_vars

\* The challenges of one guild: no moves are sent
ChallengeNext ==
    \/ Tick(2 * RoundTotal * Sec, MaxTime)
    \/ DuelCmd(1, MaxDuels)
    \/ DuelAccept(1)
    \/ DuelDecline(1)
    \/ DuelCancel(1)
    \/ DuelAcceptStart
    \/ StartRoundTimer
    \/ RoundLoopTop
    \/ RoundLoopCheck

ChallengeSpec == Init /\ [][ChallengeNext]_vars

\* The food game of one guild
FoodNext ==
    \/ Tick(FOOD_DEFAULT_SECONDS * Sec, MaxGameTime)
    \/ FoodGame(1, RoundsArgs)
    \/ FoodStop(1)
    \/ Guess(1, Guessers, GuessWords)
    \/ FoodRoundTimer
    \/ FoodTimeout
    \/ FoodNextRound

FoodSpec == Init /\ [][FoodNext]_vars

\* The hints of single rounds, while the clock stands still
HintNext ==
    \/ FoodGame(1, {<<FALSE, 0>>})
    \/ FoodStop(1)
    \/ Hint(1)
    \/ Guess(1, Guessers, GuessWords)
    \/ FoodRoundTimer

HintSpec == Init /\ [][HintNext]_vars

\* The first eleven seconds and a half of single rounds, three seconds and a
\* half at a time, with hints and guesses
PointsNext ==
    \/ Tick((7 * Sec) \div 2, MaxSolveTime)
    \/ FoodGame(1, {<<FALSE, 0>>})
    \/ Hint(1)
    \/ Guess(1, {1}, {"sushi"})
    \/ FoodRoundTimer

PointsSpec == Init /\ [][PointsNext]_vars

\* The first second and a half of the first sequence of a guild, a quarter of
\* a second at a time, with the guesses of two members
CooldownNext ==
    \/ Tick(1, MaxCooldownTime)
    \/ (DictGet(food, 1) = 0 /\ FoodGame(1, {<<FALSE, 0>>}))
    \/ Guess(1, Guessers, {"sushi", "pizza"})
    \/ FoodRoundTimer

CooldownSpec == Init /\ [][CooldownNext]_vars

\* The culture battle of one guild
BattleNext ==
    \/ Tick(CULTURE_DEFAULT_SECONDS * Sec, MaxGameTime)
    \/ BattleCmd(1, CountArgs)
    \/ Buzz(1, Buzzers, Channels, BuzzWords)
    \/ AskNextQuestion
    \/ AskTimer
    \/ BattleTimerTop
    \/ BattleTimerCheck

BattleSpec == Init /\ [][BattleNext]_vars

\* One battle of a guild, started when the bot is up, that nobody answers and
\* nobody stops.  The event loop runs every coroutine that is ready and wakes
\* every sleeper whose time has come, so each step of a coroutine and the
\* clock are weakly fair.
QuietNext ==
    \/ Tick(BattleTick * Sec, MaxBattleTime)
    \/ (battle = <<>> /\ now = 0 /\ BattleCmd(1, CountArgs))
    \/ AskNextQuestion
    \/ AskTimer
    \/ BattleTimerTop
    \/ BattleTimerCheck

QuietSpec ==
    /\ Init /\ [][QuietNext]_vars
    /\ WF_vars(Tick(BattleTick * Sec, MaxBattleTime))
    /\ WF_vars(AskNextQuestion) /\ WF_vars(AskTimer)
    /\ WF_vars(BattleTimerTop) /\ WF_vars(BattleTimerCheck)

\* The scores of one guild while a food game of single rounds and a battle
\* run side by side and the clock stands still
LedgerNext ==
    \/ FoodGame(1, {<<FALSE, 0>>})
    \/ Guess(1, {1}, {"sushi", "pizza"})
    \/ FoodRoundTimer
    \/ BattleCmd(1, {<<TRUE, 2>>})
    \/ Buzz(1, {1}, {1}, {"tokyo", "kyoto"})
    \/ AskNextQuestion
    \/ AskTimer
    \/ BattleTimerTop
    \/ BattleTimerCheck

LedgerSpec == Init /\ [][LedgerNext]_vars

----------------------------------------------------------------------------
\* Properties

\* C1: in an active duel no round is applied twice: a resolution that changes
\* the hp or the round wins is never followed by a second resolution of the
\* same round that changes them again.
C1_RoundAppliedOnce == \A st \in DOMAIN duel : ~duel[st].reapplied
\* C3: a challenge with a proper opponent is rejected, and the registry and
\* the duel left as they are, whenever the guild has a duel that is active or
\* is pending and was created at most DuelWindow seconds ago; otherwise it is
\* accepted and the registry holds a fresh pending duel of the two.
C3_ChallengeGate ==
    \A a \in Users : \A o \in Users \ {a}, m \in {"", "bo3"} :
        LET e == DictGet(duels, 1)
            R == duel_cmd(Cur, 1, a, o, m)
            new == DictGet(R.duels, 1)
        IN  IF e # 0 /\ (duel[e].active
                         \/ now - duel[e].created_at <= DuelWindow * Sec)
            THEN R.out = "duel_busy" /\ R.duels = duels /\ R.duel = duel
            ELSE /\ R.out = "duel_challenge"
                 /\ new = Len(duel) + 1
                 /\ R.duel[new].challenger_id = a /\ R.duel[new].opponent_id = o
                 /\ R.duel[new].created_at = now
                 /\ ~R.duel[new].accepted /\ ~R.duel[new].active

\* C3: the guild holds a pending duel whose window is over, and a second
\* challenge has been accepted in this run
C3_Witness ==
    /\ Len(duel) = 2
    /\ DictGet(duels, 1) = 2
    /\ ~duel[2].active
    /\ now - duel[2].created_at > DuelWindow * Sec

\* C5: no exit path leaves a dangling timer: a round timer that is live
\* belongs to the duel that the registry holds for its guild.
C5_NoDanglingRoundTimer ==
    \A t \in Suspended :
        t.kind = "round_loop" => DictGet(duels, t.gid) = t.st

\* C2: of the buzzes for one dealt question exactly the first that is
\* processed while accepting is true is accepted, and it closes accepting and
\* records the claimant; accepting stays closed until the next question is
\* dealt, and a buzz that comes while it is closed changes neither the
\* session nor the scores.
C2_FirstBuzzOnly ==
    \A st \in DOMAIN battlest :
        /\ battlest[st].claims <= 1
        /\ battlest[st].accepting => battlest[st].claims = 0
        /\ (DictGet(battle, 1) = st /\ battlest[st].active
                /\ battlest[st].current_q # 0) =>
             \A u \in Buzzers, w \in BuzzWords \ {""} :
                LET R == buzz(Cur, 1, u, battlest[st].channel_id, w)
                IN  IF battlest[st].accepting
                    THEN /\ ~R.battlest[st].accepting
                         /\ R.battlest[st].buzz_winner_id = u
                    ELSE /\ R.battlest = battlest /\ R.battle = battle
                         /\ R.ledger = ledger /\ R.tasks = tasks

\* C2: a question is out, one buzz has been accepted for it and the
\* continuation of that buzz has not dealt the next question yet
C2_Witness ==
    \E st \in DOMAIN battlest :
        /\ DictGet(battle, 1) = st /\ battlest[st].active
        /\ battlest[st].current_q # 0 /\ battlest[st].claims = 1
        /\ ~battlest[st].accepting /\ battlest[st].buzz_winner_id # 0

\* C4: a battle start in a guild whose battle is active is rejected and leaves
\* the battle, its timer and its question queue as they are.
C4_StartRejectedWhileActive ==
    LET st == DictGet(battle, 1)
    IN  (st # 0 /\ battlest[st].active) =>
            \A n \in CountArgs, qpool \in Shuffles :
                LET R == battle_cmd(Cur, 1, 1, 1, "start", n[1], n[2], FALSE, 0, qpool)
                IN  R.battle = battle /\ R.battlest = battlest /\ R.tasks = tasks

\* C6: a battle timer whose battle is no longer the one the registry holds for
\* its guild has no effect when it runs: the registry, the battle that the
\* registry holds, the other coroutines' timers and the scores stay as they are.
C6_StaleTimerNoOp ==
    \A t \in Suspended :
        (t.kind = "battle_timer" /\ (t.pc = "sleep" => t.wake = 0)
            /\ DictGet(battle, t.gid) # t.st /\ DictGet(battle, t.gid) # 0) =>
            LET cur == DictGet(battle, t.gid)
                R == battle_timer_resume(Resume(t), t)
            IN  /\ R.battle = battle
                /\ R.battlest[cur] = battlest[cur]
                /\ R.ledger = ledger

\* C7: the hint counter of a guessing round is at most 3.
C7_HintsAtMostThree == \A st \in DOMAIN foodst : foodst[st].hints_used <= 3

\* C8: a wrong buzz that is accepted takes the claimant's total s to
\* max(0, s - 1), and no total is negative.
C8_WrongBuzzFloored ==
    /\ \A g \in Guilds, u \in Users : ledger[g][u] >= 0
    /\ LET st == DictGet(battle, 1)
       IN  (st # 0 /\ battlest[st].active /\ battlest[st].current_q # 0
                /\ battlest[st].accepting) =>
             \A u \in Buzzers, w \in BuzzWords \ {""} :
                LET R == buzz(Cur, 1, u, battlest[st].channel_id, w)
                    s == ledger[1][u]
                IN  _norm(w) # CULTURE_Q[battlest[st].current_q] =>
                        /\ R.ledger[1][u] = (IF s >= 1 THEN s - 1 ELSE 0)
                        /\ \A v \in Users \ {u} : R.ledger[1][v] = ledger[1][v]

\* C8: a wrong buzz has been accepted from a claimant whose total was 0 or
\* 1: the total is 0 and the next question has not been dealt yet
C8_Witness ==
    \E st \in DOMAIN battlest :
        /\ DictGet(battle, 1) = st /\ battlest[st].active
        /\ battlest[st].claims = 1 /\ ~battlest[st].accepting
        /\ \E u \in Buzzers :
              battlest[st].buzz_winner_id = u /\ ledger[1][u] = 0

\* C9: the adjustments of the ledger are atomic: whatever way the awards of
\* the food game and the awards and deductions of the battle interleave, every
\* total is what comes of applying the adjustments made so far one after the
\* other, so no adjustment is lost.
C9_NoLostUpdate ==
    \A g \in Guilds, u \in Users : ledger[g][u] = credit[g][u]

\* C9: one participant has won a food round, which awards at least 3 at
\* once, and holds the claim of the battle's question with a total of 2: an
\* award of one session and a deduction of the other have met in that total
C9_Witness ==
    /\ \E f \in DOMAIN foodst : DictGet(food, 1) = f /\ foodst[f].wins = 1
    /\ \E st \in DOMAIN battlest :
          /\ DictGet(battle, 1) = st /\ battlest[st].claims = 1
          /\ battlest[st].buzz_winner_id = 1
    /\ ledger[1][1] = 2

\* C10: a guessing round is resolved once, by the first correct guess or by
\* its timer, never by both; points are awarded for it only by the guess that
\* resolved it; a timeout that runs on a round that is no longer active
\* changes nothing.
C10_RoundResolvedOnce ==
    /\ \A st \in DOMAIN foodst :
          /\ foodst[st].wins + foodst[st].expiries <= 1
          /\ foodst[st].paid = foodst[st].wins
          /\ foodst[st].active => foodst[st].wins + foodst[st].expiries = 0
    /\ \A t \in Suspended :
          (t.kind = "food_timeout" /\ ~foodst[t.st].active) =>
              LET R == _food_timeout(Resume(t), t)
              IN  R.food = food /\ R.foodst = foodst /\ R.ledger = ledger

\* C10: a round was resolved by a correct guess and paid once, and both
\* guessers have guessed at it while it was active
C10_Witness ==
    \E st \in DOMAIN foodst :
        /\ foodst[st].wins = 1 /\ foodst[st].paid = 1 /\ ~foodst[st].active
        /\ \A u \in Guessers : foodst[st].last_guess_at[u] >= 0

\* The round timer of a running duel has posted its message with the 30
\* seconds of the round over and exactly one move slot empty
ForfeitDue(t) ==
    /\ t.kind = "round_loop" /\ t.pc = "post" /\ t.elapsed >= RoundTotal * Sec
    /\ DictGet(duels, t.gid) = t.st /\ duel[t.st].active
    /\ duel[t.st].round_task = t.id
    /\ (duel[t.st].ch_move = "none") # (duel[t.st].op_move = "none")

\* The resolutions that the timer t, resumed now, leaves to run after their
\* forfeit announcement
ForfeitsOf(t) ==
    {k \in BagToSet(round_loop_check(Resume(t), t).tasks) :
        k.id = t.id /\ k.pc = "res_forfeit"}

\* C11: when the round timer runs out with exactly one move slot empty, the
\* round is resolved as a forfeit of the participant whose slot is empty: in
\* hp mode that participant's hp goes down by 1, in bo3 mode the other's
\* round wins go up by 1, and no other counter changes.
C11_TimeoutForfeit ==
    \A t \in Suspended :
        ForfeitDue(t) =>
            /\ ForfeitsOf(t) # {}
            /\ \A k \in ForfeitsOf(t) :
                  LET d == duel[t.st]
                      R == round_loop_check(Resume(t), t)
                      e == resolve_resume(ResumeIn(R, k), k).duel[t.st]
                      ch == IF d.ch_move = "none" THEN 1 ELSE 0
                      op == IF d.op_move = "none" THEN 1 ELSE 0
                  IN  IF d.mode = "bo3"
                      THEN /\ e.op_wins = d.op_wins + ch
                           /\ e.ch_wins = d.ch_wins + op
                           /\ e.ch_hp = d.ch_hp /\ e.op_hp = d.op_hp
                      ELSE /\ e.ch_hp = d.ch_hp - ch
                           /\ e.op_hp = d.op_hp - op
                           /\ e.ch_wins = d.ch_wins /\ e.op_wins = d.op_wins

\* C12: after the round timer ran out with exactly one move submitted and
\* the forfeit ended no duel, the next round starts by itself: its
\* announcement is on its way, both move slots are empty, the start of the
\* round is recorded, and a new round timer is live once it is announced.
C12_NextRoundAfterForfeit ==
    \A t \in Suspended :
        ForfeitDue(t) =>
            /\ ForfeitsOf(t) # {}
            /\ \A k \in ForfeitsOf(t) :
                  LET st == t.st
                      R == round_loop_check(Resume(t), t)
                      E == resolve_resume(ResumeIn(R, k), k)
                      starts == {x \in BagToSet(E.tasks) :
                                    x.id = t.id /\ x.pc = "start_round"}
                  IN  DictGet(E.duels, t.gid) = st =>
                        /\ starts # {}
                        /\ E.duel[st].ch_move = "none" /\ E.duel[st].op_move = "none"
                        /\ E.duel[st].round_started_at = now
                        /\ \A x \in starts :
                              LET N == start_round_timer(ResumeIn(E, x), x.gid, st)
                              IN  /\ N.duel[st].round_task # 0
                                  /\ TaskLive(N, N.duel[st].round_task)

\* C13: the round timer keeps a duel going: an active duel of the registry
\* always has a coroutine at work for it, a live round timer or a handler
\* that is resolving or starting a round, so that a participant who stays
\* silent forfeits round after round until the duel ends.
C13_TimerKeepsDuelGoing ==
    \A i \in 1..Len(duels) :
        duel[duels[i].v].active =>
            \E x \in Suspended : x.kind \in DuelKinds /\ x.st = duels[i].v

\* C14: no acknowledged move is lost: a coroutine that is about to start a
\* round without having used the moves (duelaccept before the first round, a
\* resolution that found both slots empty) finds no acknowledged move in the
\* slots that the round start clears.
C14_NoMoveLost ==
    \A t \in Suspended :
        /\ (t.kind = "duelaccept" /\ t.pc = "started") \/ t.pc = "res_nomoves"
        /\ ~\E x \in Suspended :
                x.kind = "on_message" /\ x.pc = "ack" /\ x.st = t.st
        => duel[t.st].ch_move = "none" /\ duel[t.st].op_move = "none"

\* C15: duel_resolve gives 0 for equal moves; for different moves it gives 1
\* or 2, 1 one way round exactly when 2 the other way round, and 1 exactly
\* when the first move beats the second in the cycle strike beats feint,
\* feint beats guard, guard beats strike; the moves of a round under
\* resolution are such moves, and they tie exactly when they are equal.
C15_ResolveCycle ==
    /\ \A a \in DUEL_MOVES, b \in DUEL_MOVES :
          /\ a = b => duel_resolve(a, b) = 0
          /\ a # b => /\ duel_resolve(a, b) \in {1, 2}
                      /\ duel_resolve(a, b) = 1 <=> duel_resolve(b, a) = 2
                      /\ duel_resolve(a, b) = 1 <=>
                            <<a, b>> \in {<<"strike", "feint">>, <<"feint", "guard">>,
                                          <<"guard", "strike">>}
    /\ \A k \in Suspended :
          k.pc = "res_reveal" =>
              /\ k.a \in DUEL_MOVES /\ k.b \in DUEL_MOVES
              /\ duel_resolve(k.a, k.b) = 0 <=> k.a = k.b

\* C15: a round is being resolved on guard against strike, which guard wins
C15_Witness ==
    \E k \in Suspended :
        /\ k.pc = "res_reveal" /\ k.a = "guard" /\ k.b = "strike"
        /\ duel_resolve(k.a, k.b) = 1

\* C17: a resolution of two submitted moves applies the outcome of
\* duel_resolve on them: a tie changes no counter, otherwise the loser's hp
\* goes down by 1 in hp mode and the winner's round wins go up by 1 in bo3
\* mode; both move slots are then empty, and the duel has ended or its next
\* round is being announced.
C17_RevealApplied ==
    \A k \in Suspended :
        k.pc = "res_reveal" =>
            LET st == k.st
                d == duel[st]
                E == resolve_resume(Resume(k), k)
                e == E.duel[st]
                r == duel_resolve(k.a, k.b)
                won == IF r = 1 THEN 1 ELSE 0
                lost == IF r = 2 THEN 1 ELSE 0
            IN  /\ IF d.mode = "bo3"
                   THEN /\ e.ch_wins = d.ch_wins + won
                        /\ e.op_wins = d.op_wins + lost
                        /\ e.ch_hp = d.ch_hp /\ e.op_hp = d.op_hp
                   ELSE /\ e.op_hp = d.op_hp - won
                        /\ e.ch_hp = d.ch_hp - lost
                        /\ e.ch_wins = d.ch_wins /\ e.op_wins = d.op_wins
                /\ e.ch_move = "none" /\ e.op_move = "none"
                /\ \/ DictGet(E.duels, k.gid) # st
                   \/ \E x \in BagToSet(E.tasks) :
                          x.pc = "start_round" /\ x.st = st /\ x.id = k.id

\* C17: in hp mode the challenger's strike has met the opponent's feint, the
\* opponent's hp is 2 of 3, the slots are empty and the next round is being
\* announced
C17_Witness ==
    \E x \in Suspended :
        /\ x.pc = "start_round" /\ x.a = "strike" /\ x.b = "feint"
        /\ duel[x.st].mode = "hp"
        /\ duel[x.st].op_hp = 2 /\ duel[x.st].ch_hp = 3
        /\ duel[x.st].ch_move = "none" /\ duel[x.st].op_move = "none"

\* C16: a duel that reaches its end condition is awarded once: 3 points to
\* the winner and 1 to the loser are added for it at most once, whatever the
\* interleaving.
C16_DuelAwardedOnce == \A st \in DOMAIN duel : duel[st].awards <= 1

\* C18: a guess that is processed is correct exactly when it equals the
\* round's answer after trimming and lower-casing, so "Sushi " is correct
\* for sushi: a correct guess closes the round and awards its author, any
\* other guess leaves the round active and the scores as they are.
C18_GuessMatch ==
    LET st == DictGet(food, 1)
    IN  (st # 0 /\ foodst[st].active) =>
            \A u \in Guessers, w \in GuessWords \ {""} :
                (now - foodst[st].last_guess_at[u] >= FOOD_GUESS_COOLDOWN) =>
                    LET R == guess(Cur, 1, u, w)
                    IN  IF <<w, foodst[st].answer>> \in
                               {<<"sushi", "sushi">>, <<"Sushi ", "sushi">>,
                                <<"pizza", "pizza">>}
                        THEN /\ ~R.foodst[st].active
                             /\ R.ledger[1][u] > ledger[1][u]
                        ELSE /\ R.foodst[st].active
                             /\ R.ledger = ledger

\* C18: the answer of the round is sushi; a guesser has guessed wrong at
\* it, which left it active, and is free to guess again
C18_Witness ==
    \E st \in DOMAIN foodst : \E u \in Guessers :
        /\ DictGet(food, 1) = st /\ foodst[st].active
        /\ foodst[st].answer = "sushi"
        /\ foodst[st].last_guess_at[u] >= 0
        /\ now - foodst[st].last_guess_at[u] >= FOOD_GUESS_COOLDOWN
        /\ ledger[1][u] = 0

\* C19: when the buzz that is accepted carries the expected answer after
\* normalization, so " Tokyo!" for tokyo, the claimant's total goes up by 2
\* and the continuation of the buzz advances the battle: it ends the battle
\* if the queue is empty, otherwise it deals the head of the queue with
\* accepting true and, once the question is announced, a live timer.
C19_CorrectBuzzAdvances ==
    LET st == DictGet(battle, 1)
    IN  (st # 0 /\ battlest[st].active /\ battlest[st].current_q = 1
            /\ battlest[st].accepting) =>
            \A u \in Buzzers, w \in {"tokyo", " Tokyo!"} :
                LET R == buzz(Cur, 1, u, battlest[st].channel_id, w)
                    nexts == {k \in BagToSet(R.tasks) : k.kind = "buzz" /\ k.pc = "next"}
                    left == battlest[st].questions_left
                IN  /\ R.ledger[1][u] = ledger[1][u] + 2
                    /\ \A v \in Users \ {u} : R.ledger[1][v] = ledger[1][v]
                    /\ nexts # {}
                    /\ \A k \in nexts :
                          LET A == _ask_next_question(ResumeIn(R, k), 1, k)
                              asks == {x \in BagToSet(A.tasks) :
                                          /\ x.kind = "buzz" /\ x.pc = "ask_timer"
                                          /\ x.st = st}
                          IN  IF left = <<>>
                              THEN ~A.battlest[st].active
                              ELSE /\ A.battlest[st].active
                                   /\ A.battlest[st].current_q = Head(left)
                                   /\ A.battlest[st].questions_left = Tail(left)
                                   /\ A.battlest[st].accepting
                                   /\ asks # {}
                                   /\ \A x \in asks :
                                         LET N == ask_timer(ResumeIn(A, x), 1, x.st)
                                         IN  /\ N.battlest[st].timer_task # 0
                                             /\ TaskLive(N, N.battlest[st].timer_task)

\* C19: in the first battle of the run the first question has been answered
\* correctly, which gave the claimant 2 points, and the second and last
\* question is out with accepting true and a live timer
C19_Witness ==
    /\ Len(battlest) = 1 /\ DictGet(battle, 1) = 1
    /\ battlest[1].active /\ battlest[1].accepting
    /\ battlest[1].current_q # 0 /\ battlest[1].questions_left = <<>>
    /\ \E x \in Suspended : x.kind = "battle_timer" /\ x.id = battlest[1].timer_task
    /\ \E u \in Buzzers : ledger[1][u] = 2 /\ \A v \in Users \ {u} : ledger[1][v] = 0

\* C20: a dealt question is resolved once, by a claim or by a timeout.  A
\* timer that has posted its message for a question that was claimed meanwhile
\* does not announce a timeout for it, and a battle never has two resolutions
\* under way at once, each of which would deal a question of the queue.
C20_ResolvedOnce ==
    LET st == DictGet(battle, 1)
        advancing == {t \in Suspended :
                         /\ t.gid = 1
                         /\ \/ t.kind = "buzz" /\ t.pc = "next"
                            \/ t.kind = "battle_timer" /\ t.pc = "timeout"}
        count == LET n[T \in SUBSET advancing] ==
                         IF T = {} THEN 0
                         ELSE LET x == CHOOSE x \in T : TRUE
                              IN  CopiesIn(x, tasks) + n[T \ {x}]
                 IN  n[advancing]
    IN  (st # 0 /\ battlest[st].active /\ battlest[st].current_q # 0) =>
            /\ \A t \in Suspended :
                  (/\ t.kind = "battle_timer" /\ t.pc = "post" /\ t.st = st
                   /\ battlest[st].claims > 0) =>
                      battle_timer_check(Resume(t), t).out # "battle_time"
            /\ count <= 1

\* C21: a reply that raises does not abort the transition it accompanies.
\* When the reply of duelaccept fails the first round is started as it is
\* after a delivered reply, and when the reply to a correct guess fails the
\* next round of the food game is dealt.
C21_FailedSendKeepsTransition ==
    \A t \in Suspended :
        /\ (t.kind = "duelaccept" /\ t.pc = "started") =>
              LET F == reply_raised(Resume(t), t)
                  N == _start_round(Resume(t), t.gid, t.st, t)
              IN  F.duel = N.duel /\ F.tasks = N.tasks
        /\ (t.kind = "guess" /\ t.pc = "next_round") =>
              LET F == reply_raised(Resume(t), t)
                  now_st == DictGet(F.food, t.gid)
              IN  /\ now_st # 0 /\ F.foodst[now_st].active
                  /\ F.foodst[now_st].round_index = foodst[t.st].round_index + 1

\* C22: a failure of the score store during an award leaves no partial award
\* and no changed session.  At the end of a duel the totals are those before
\* the award, with the duel still in the registry, or both awards are in; a
\* right guess whose points are not recorded leaves its round open.
C22_AwardAllOrNothing ==
    /\ \A t \in Suspended : \A done \in {0, 1} :
          LET C == resolve_counters(Resume(t), t)
              E == _check_duel_end(C, t.gid, t.st)
              F == check_duel_end_raised(C, t.gid, t.st, done)
          IN  (t.pc \in {"res_forfeit", "res_reveal"} /\ E.ended) =>
                  \/ F.ledger = E.S.ledger
                  \/ F.ledger = C.ledger /\ F.duels = C.duels
    /\ LET st == DictGet(food, 1)
       IN  (st # 0 /\ foodst[st].active) =>
               \A u \in Guessers :
                   LET F == guess_raised(Cur, 1, u)
                   IN  F.ledger = ledger => F.foodst[st].active

\* C23: while the guild's duel is pending, of all the commands of all the
\* members only duelaccept by the named opponent, within the window, makes it
\* active.  duelaccept by anyone else within the window, dueldecline by anyone
\* but the opponent and duelcancel by anyone but the two participants are
\* rejected and leave the duels and the registry as they are; a new challenge
\* leaves the duel pending.
C23_OnlyOpponentAccepts ==
    LET st == DictGet(duels, 1)
    IN  (st # 0 /\ ~duel[st].active) =>
            \A u \in Users :
                LET A == duelaccept(Cur, 1, u)
                    D == dueldecline(Cur, 1, u)
                    X == duelcancel(Cur, 1, u)
                    fresh == now - duel[st].created_at <= DuelWindow * Sec
                IN  /\ A.duel[st].active <=> (u = duel[st].opponent_id /\ fresh)
                    /\ (u # duel[st].opponent_id /\ fresh) =>
                          /\ A.duel = duel /\ A.duels = duels /\ A.tasks = tasks
                          /\ A.out = "accept_not_opponent"
                    /\ ~D.duel[st].active /\ ~X.duel[st].active
                    /\ u # duel[st].opponent_id =>
                          /\ D.duel = duel /\ D.duels = duels /\ D.tasks = tasks
                          /\ D.out = "decline_not_opponent"
                    /\ u \notin {duel[st].challenger_id, duel[st].opponent_id} =>
                          /\ X.duel = duel /\ X.duels = duels /\ X.tasks = tasks
                          /\ X.out = "cancel_not_participant"
                    /\ \A o \in Users \ {u}, m \in {"", "bo3"} :
                          ~duel_cmd(Cur, 1, u, o, m).duel[st].active

\* C23: a duel of challenger 1 and opponent 2 is pending, within its window,
\* after time has passed, so member 3 and the challenger are those who are
\* turned away
C23_Witness ==
    \E st \in DOMAIN duel :
        /\ DictGet(duels, 1) = st /\ ~duel[st].active
        /\ duel[st].challenger_id = 1 /\ duel[st].opponent_id = 2
        /\ now > duel[st].created_at
        /\ now - duel[st].created_at <= DuelWindow * Sec

\* C24: once a pending duel is more than DuelWindow seconds old, duelaccept
\* by any member, its opponent included, does not make it active: the reply
\* is that the duel expired and the entry leaves the registry.  A challenge
\* made then is accepted and takes the entry's place.
C24_ExpiredNeverAccepted ==
    LET st == DictGet(duels, 1)
    IN  (st # 0 /\ ~duel[st].active
            /\ now - duel[st].created_at > DuelWindow * Sec) =>
            \A u \in Users :
                LET A == duelaccept(Cur, 1, u)
                IN  /\ A.out = "accept_expired"
                    /\ A.duel = duel /\ A.tasks = tasks
                    /\ DictGet(A.duels, 1) = 0
                    /\ \A o \in Users \ {u} :
                          LET N == duel_cmd(Cur, 1, u, o, "")
                          IN  /\ N.out = "duel_challenge"
                              /\ DictGet(N.duels, 1) = Len(duel) + 1

\* C24: the first challenge of the run is still pending in the registry when
\* its window is over
C24_Witness ==
    /\ Len(duel) = 1 /\ DictGet(duels, 1) = 1
    /\ ~duel[1].active /\ ~duel[1].accepted
    /\ now - duel[1].created_at > DuelWindow * Sec

\* C25: a direct message with a move changes no duel and starts nothing when
\* its move word is not one of DUEL_MOVES, when its author is in no active
\* duel (in none, or only in a pending one), or when the author's slot of the
\* round already holds a move, which stays as recorded; otherwise it fills
\* the author's slot and no other field.
C25_OneMovePerRound ==
    \A u \in Users, m \in {"strike", "guard", "feint", "punch"} :
        LET R == on_message(Cur, u, m)
            mine == {st \in DOMAIN duel :
                        /\ DictGet(duels, 1) = st /\ duel[st].active
                        /\ u \in {duel[st].challenger_id, duel[st].opponent_id}}
        IN  IF m \notin {"strike", "guard", "feint"}
            THEN R.out = "move_invalid" /\ R.duel = duel /\ R.tasks = tasks
            ELSE IF mine = {}
            THEN R.out = "move_no_duel" /\ R.duel = duel /\ R.tasks = tasks
            ELSE \A st \in mine :
                    LET slot == IF u = duel[st].challenger_id
                                THEN duel[st].ch_move ELSE duel[st].op_move
                    IN  IF slot # "none"
                        THEN /\ R.out = "move_already"
                             /\ R.duel = duel /\ R.tasks = tasks
                        ELSE /\ R.out = "move_received"
                             /\ R.duel = IF u = duel[st].challenger_id
                                         THEN [duel EXCEPT ![st].ch_move = m]
                                         ELSE [duel EXCEPT ![st].op_move = m]

\* C25: in an active duel the challenger's move is recorded and acknowledged
\* and the opponent's is awaited, so a second move of the challenger would
\* fall in the same round
C25_Witness ==
    \E st \in DOMAIN duel :
        /\ DictGet(duels, 1) = st /\ duel[st].active
        /\ duel[st].ch_move = "strike" /\ duel[st].op_move = "none"
        /\ \A t \in Suspended : t.kind # "on_message"

\* C26: the sessions of two guilds are independent.  The duel commands of
\* guild 1 leave the duel and the scores of guild 2 as they are, and a member
\* who is in the active duel of guild 2 with an empty move slot has a move
\* recorded there exactly as if guild 1 had no duel.
C26_TenantsIndependent ==
    LET st == DictGet(duels, 2)
        alone == [Cur EXCEPT !.duels = SelectSeq(@, LAMBDA e : e.k # 1)]
    IN  st # 0 =>
            \A u \in Users :
                /\ \A R \in {duelaccept(Cur, 1, u), dueldecline(Cur, 1, u),
                             duelcancel(Cur, 1, u), duel_cmd(Cur, 1, u, 1 + (u % 3), "")} :
                      /\ R.duel[st] = duel[st]
                      /\ DictGet(R.duels, 2) = st
                      /\ R.ledger[2] = ledger[2]
                /\ (/\ duel[st].active
                    /\ u \in {duel[st].challenger_id, duel[st].opponent_id}) =>
                      submitted(on_message(Cur, u, "strike"), st, u)
                          = submitted(on_message(alone, u, "strike"), st, u)

\* C27: the jokes a category has served since its last refill are all
\* different, and together with the jokes left in its bag they are the jokes
\* of the category, each once: a block of len(jokes) draws that starts at a
\* refill is a permutation of the category.
C27_NoRepeatInCycle ==
    \A c \in DOMAIN joke_library :
        LET n == Len(joke_library[c])
            all == served[c] \o shuffle[c]
        IN  /\ \A i, j \in 1..Len(served[c]) : served[c][i] = served[c][j] => i = j
            /\ served[c] # <<>> =>
                  /\ Len(all) = n
                  /\ {all[i] : i \in 1..Len(all)} = {joke_library[c][i] : i \in 1..n}

\* C27: the largest category has served all its jokes since its last refill
\* and its bag is empty, while another category is in the middle of its bag
C27_Witness ==
    /\ Len(served["anime"]) = Len(joke_library["anime"])
    /\ shuffle["anime"] = <<>>
    /\ Len(served["dad"]) = 1 /\ Len(shuffle["dad"]) = 1

\* the rank the table gives to p points: the name of the entry with the
\* greatest threshold that is at most p, the first entry when there is none
TierOf(p) ==
    LET table == <<0, 10, 25, 50, 100, 200>>
        below == {i \in 1..6 : table[i] <= p}
    IN  IF below = {} THEN 1 ELSE CHOOSE i \in below : \A j \in below : j <= i

\* the place in the table of the tier with this name
TierNamed(title) == CHOOSE i \in 1..Len(RANKS) : RANKS[i][2] = title

\* C28: rank_title(p) is the name of the tier with the greatest threshold
\* that is at most p in the table 0, 10, 25, 50, 100, 200, and of the lowest
\* tier when p is below the first threshold; more points never give a lower
\* tier; and the reply of myscore shows the rank of the points it shows.
C28_RankTitle ==
    /\ score.title # "" => score.title = RANKS[TierOf(score.pts)][2]
    /\ \A p \in -3..MaxPoints :
          /\ rank_title(p) = RANKS[TierOf(p)][2]
          /\ TierNamed(rank_title(p)) <= TierNamed(rank_title(p + 1))
    /\ \A i \in 1..Len(RANKS) : RANKS[i][1] = <<0, 10, 25, 50, 100, 200>>[i]

\* C28: myscore has answered a member whose total is exactly the threshold of
\* the highest tier
C28_Witness ==
    /\ score.pts = 200 /\ score.title = "Legend"
    /\ ledger[1][1] = 200

\* C29: when the round timer runs out with both move slots empty the round
\* is a no-op that restarts: the resolution goes on after its announcement,
\* it leaves the duel's counters, its mode, the registry and the scores as
\* they are, it records a fresh round start, and a new round timer is live
\* once the round is announced.
C29_EmptyRoundRestarts ==
    \A t \in Suspended :
        (/\ t.kind = "round_loop" /\ t.pc = "post" /\ t.elapsed >= RoundTotal * Sec
         /\ DictGet(duels, t.gid) = t.st /\ duel[t.st].active
         /\ duel[t.st].round_task = t.id
         /\ duel[t.st].ch_move = "none" /\ duel[t.st].op_move = "none") =>
            LET st == t.st
                R == round_loop_check(Resume(t), t)
                again == {k \in BagToSet(R.tasks) : k.id = t.id /\ k.pc = "res_nomoves"}
            IN  /\ again # {}
                /\ \A k \in again :
                      LET E == resolve_resume(ResumeIn(R, k), k)
                          starts == {x \in BagToSet(E.tasks) :
                                        x.id = t.id /\ x.pc = "start_round"}
                      IN  /\ E.duels = duels /\ E.ledger = ledger
                          /\ E.duel[st] = [duel[st] EXCEPT !.round_started_at = now,
                                                           !.round_task = 0]
                          /\ starts # {}
                          /\ \A x \in starts :
                                LET N == start_round_timer(ResumeIn(E, x), x.gid, st)
                                IN  /\ N.duel[st].round_task # 0
                                    /\ TaskLive(N, N.duel[st].round_task)

\* C30: duelaccept by the named opponent of a pending duel within its window
\* makes the duel active with 3 hp each, no round wins and empty move slots;
\* whether or not its direct messages are delivered, it goes on to start the
\* first round, after whose announcement one round timer is live.  While the
\* duel is active, so also while that accept is still in progress, duelaccept
\* by any member is turned away and changes nothing, and no duel ever has two
\* live round timers.
C30_AcceptStartsOneRound ==
    LET st == DictGet(duels, 1)
        timers(S) == {x \in BagToSet(S.tasks) : x.kind = "round_loop" /\ x.st = st}
    IN  /\ (st # 0 /\ ~duel[st].active
               /\ now - duel[st].created_at <= DuelWindow * Sec) =>
              LET A == duelaccept(Cur, 1, duel[st].opponent_id)
                  ks == {k \in BagToSet(A.tasks) :
                            k.kind = "duelaccept" /\ k.pc = "started" /\ k.st = st}
              IN  /\ A.duel[st] = [duel[st] EXCEPT !.active = TRUE, !.accepted = TRUE,
                                       !.ch_hp = 3, !.op_hp = 3,
                                       !.ch_wins = 0, !.op_wins = 0,
                                       !.ch_move = "none", !.op_move = "none"]
                  /\ ks # {}
                  /\ \A k \in ks :
                        LET B == _start_round(ResumeIn(A, k), 1, st, k)
                            xs == {x \in BagToSet(B.tasks) :
                                      /\ x.kind = "duelaccept" /\ x.pc = "start_round"
                                      /\ x.st = st}
                        IN  /\ xs # {}
                            /\ \A x \in xs :
                                  LET N == start_round_timer(ResumeIn(B, x), 1, st)
                                  IN  /\ Cardinality(timers(N)) = 1
                                      /\ \A y \in timers(N) :
                                            /\ y.id = N.duel[st].round_task
                                            /\ CopiesIn(y, N.tasks) = 1
        /\ (st # 0 /\ duel[st].active) =>
              \A u \in Users :
                  LET A == duelaccept(Cur, 1, u)
                  IN  /\ A.out = "accept_active"
                      /\ A.duel = duel /\ A.duels = duels /\ A.tasks = tasks
        /\ \A d \in DOMAIN duel :
              Cardinality({x \in Suspended : x.kind = "round_loop" /\ x.st = d}) <= 1

\* C30: the opponent's accept is in progress, the duel being active already
\* with its first round not yet started, which is when a second accept finds it
C30_Witness ==
    \E st \in DOMAIN duel :
        /\ DictGet(duels, 1) = st /\ duel[st].active
        /\ duel[st].ch_hp = 3 /\ duel[st].op_hp = 3
        /\ duel[st].round_task = 0
        /\ \E k \in Suspended : k.kind = "duelaccept" /\ k.pc = "started" /\ k.st = st

\* C31: the counters of a duel stay in range, both healths in 0..3 and both
\* round-win counters in 0..2, in every state and after every update that a
\* resolution under way makes; and a duel that the registry holds has not
\* reached a limit: both healths are at least 1 and both win counters at
\* most 1.
C31_CountersInRange ==
    LET inrange(d) == /\ d.ch_hp \in 0..3 /\ d.op_hp \in 0..3
                      /\ d.ch_wins \in 0..2 /\ d.op_wins \in 0..2
    IN  /\ \A st \in DOMAIN duel : inrange(duel[st])
        /\ \A i \in 1..Len(duels) :
              LET d == duel[duels[i].v]
              IN  /\ d.ch_hp >= 1 /\ d.op_hp >= 1
                  /\ d.ch_wins <= 1 /\ d.op_wins <= 1
        /\ \A t \in Suspended :
              t.pc \in {"res_forfeit", "res_reveal"} =>
                  inrange(resolve_counters(Resume(t), t).duel[t.st])

\* C32: a correct guess is awarded max(1, 2 + speed_bonus - hint_penalty)
\* points, where speed_bonus is 1 if the round was solved within 10 seconds
\* of its start and 0 otherwise and hint_penalty is min(hints_used, 2); the
\* award is 1, 2 or 3.
C32_GuessAward ==
    LET st == DictGet(food, 1)
    IN  (st # 0 /\ foodst[st].active) =>
            \A u \in Guessers :
                (now - foodst[st].last_guess_at[u] >= FOOD_GUESS_COOLDOWN) =>
                    LET R == guess(Cur, 1, u, foodst[st].answer)
                        award == R.ledger[1][u] - ledger[1][u]
                        speed_bonus ==
                            IF now - foodst[st].started_at <= 10 * Sec THEN 1 ELSE 0
                        hint_penalty == Min(foodst[st].hints_used, 2)
                    IN  /\ award = Max(1, 2 + speed_bonus - hint_penalty)
                        /\ award \in {1, 2, 3}

C34_HintFrame ==
    LET st == DictGet(food, 1)
        R == hint(Cur, 1)
    IN  /\ R.food = food /\ R.tasks = tasks /\ R.ledger = ledger /\ R.now = now
        /\ R.duel = duel /\ R.duels = duels
        /\ R.battle = battle /\ R.battlest = battlest
        /\ IF st # 0 /\ foodst[st].active
           THEN /\ R.foodst = [foodst EXCEPT ![st].hints_used = @ + 1]
                /\ R.out = "food_hint"
           ELSE R.foodst = foodst /\ R.out = "food_none"

\* C34: a round is active with its timer running, a hint has been given in
\* it and a member has a score
C34_Witness ==
    \E st \in DOMAIN foodst :
        /\ DictGet(food, 1) = st /\ foodst[st].active
        /\ foodst[st].hints_used = 1
        /\ \E t \in Suspended : t.kind = "food_timeout" /\ t.id = foodst[st].timer_task
        /\ \E u \in Users : ledger[1][u] > 0

\* C35: a guess sent less than FOOD_GUESS_COOLDOWN after the same member's
\* last processed guess in the round is dropped without a reply and changes
\* nothing, the right answer included; a guess of a member who is not in
\* their own cooldown is processed, whatever the others sent and when.
C35_CooldownDrop ==
    LET st == DictGet(food, 1)
    IN  (st # 0 /\ foodst[st].active) =>
            \A u \in Guessers, w \in {"sushi", "pizza"} :
                LET R == guess(Cur, 1, u, w)
                IN  IF now - foodst[st].last_guess_at[u] < FOOD_GUESS_COOLDOWN
                    THEN /\ R.out = "-"
                         /\ R.foodst = foodst /\ R.food = food
                         /\ R.tasks = tasks /\ R.ledger = ledger
                    ELSE /\ R.out \in {"food_correct", "food_nope"}
                         /\ R.foodst[st].last_guess_at =
                               [foodst[st].last_guess_at EXCEPT ![u] = now]

\* C35: in an active round member 1 guessed a second ago, so is in the
\* cooldown, and member 2 has not guessed in it
C35_Witness ==
    \E st \in DOMAIN foodst :
        /\ DictGet(food, 1) = st /\ foodst[st].active
        /\ now - foodst[st].last_guess_at[1] = Sec
        /\ foodst[st].last_guess_at[2] < foodst[st].started_at

\* C36: when a question's timer runs out before a claim was accepted no score
\* changes and the question stops accepting; the timer's coroutine then either
\* ends the battle, when the queue is empty, or deals the head of the queue
\* with accepting set and a start time of now, and once the question is
\* announced a new timer task is live for it.
C36_TimeoutAdvances ==
    \A t \in Suspended :
        (/\ t.kind = "battle_timer" /\ t.pc = "post"
         /\ DictGet(battle, t.gid) = t.st /\ battlest[t.st].active
         /\ battlest[t.st].current_q # 0 /\ battlest[t.st].timer_task = t.id
         /\ battlest[t.st].accepting /\ battlest[t.st].claims = 0
         /\ t.elapsed >= battlest[t.st].seconds_per_q * Sec) =>
            LET st == t.st
                left == battlest[st].questions_left
                R == battle_timer_check(Resume(t), t)
                next == {k \in BagToSet(R.tasks) : k.id = t.id /\ k.pc = "timeout"}
            IN  /\ R.ledger = ledger /\ ~R.battlest[st].accepting
                /\ next # {}
                /\ \A k \in next :
                      LET E == _ask_next_question(ResumeIn(R, k), k.gid, k)
                          asks == {x \in BagToSet(E.tasks) :
                                      x.id = t.id /\ x.pc = "ask_timer"}
                      IN  /\ E.ledger = ledger
                          /\ IF left = <<>>
                             THEN ~E.battlest[st].active
                             ELSE /\ E.battlest[st].active
                                  /\ E.battlest[st].accepting
                                  /\ E.battlest[st].current_q = Head(left)
                                  /\ E.battlest[st].asked_at = now
                                  /\ asks # {}
                                  /\ \A x \in asks :
                                        LET N == ask_timer(ResumeIn(E, x), x.gid, st)
                                        IN  /\ N.battlest[st].timer_task # 0
                                            /\ TaskLive(N, N.battlest[st].timer_task)

\* C37: battle start with count n queues min(max(1, min(n, 50)), size of the
\* pool) questions, no question twice; the queue of a battle only ever loses
\* its head, which becomes the question asked; and a battle that nobody
\* answers comes to its end: once it is active it is eventually inactive with
\* an empty queue, as far as the clock runs (a battle whose timer is asleep
\* when the clock reaches its end is still on its way).
StartQueues ==
    \A n \in CountArgs, qpool \in Shuffles :
        LET R == battle_cmd(Cur, 1, 1, 1, "start", n[1], n[2], FALSE, 0, qpool)
            q == R.battlest[DictGet(R.battle, 1)].questions_left
        IN  /\ Len(q) = Min(Max(1, Min(n[2], 50)), Len(CULTURE_Q))
            /\ \A i, j \in 1..Len(q) : q[i] = q[j] => i = j

DealsHead ==
    LET st == DictGet(battle, 1)
    IN  (st # 0 /\ DictGet(battle', 1) = st) =>
            \/ UNCHANGED <<battlest[st].questions_left, battlest[st].current_q>>
            \/ /\ battlest[st].questions_left # <<>>
               /\ battlest'[st].questions_left = Tail(battlest[st].questions_left)
               /\ battlest'[st].current_q = Head(battlest[st].questions_left)
            \/ /\ battlest[st].questions_left = <<>>
               /\ battlest'[st].questions_left = <<>>
               /\ battlest'[st].current_q = 0

BattleActive == DictGet(battle, 1) # 0 /\ battlest[DictGet(battle, 1)].active

BattleOver ==
    /\ DictGet(battle, 1) # 0 /\ ~battlest[DictGet(battle, 1)].active
    /\ battlest[DictGet(battle, 1)].questions_left = <<>>

\* the clock has reached its end while the battle's timer sleeps on
ClockOut ==
    /\ now + BattleTick * Sec > MaxBattleTime
    /\ \E x \in Suspended :
          /\ x.kind = "battle_timer" /\ x.st = DictGet(battle, 1)
          /\ x.pc = "sleep" /\ x.wake # 0

C37_DealsAndTerminates ==
    /\ []StartQueues
    /\ [][DealsHead]_vars
    /\ BattleActive ~> (BattleOver \/ ClockOut)

\* C38: foodstop is final.  When it is sent for a sequence that is not over,
\* in an active round or in the second between two rounds, the round is
\* inactive afterwards and no coroutine of the sequence that runs later deals
\* a round, puts another round in the registry, reopens the round or changes
\* its counters or the scores.
C38_StopIsFinal ==
    LET st == DictGet(food, 1)
        R == foodstop(Cur, 1)
        Later(k, choice) ==
            CASE k.pc = "next_round" -> food_next_round(ResumeIn(R, k), k, choice)
              [] k.pc = "food_round" -> food_round_timer(ResumeIn(R, k), k.gid, k.st)
              [] OTHER -> _food_timeout(ResumeIn(R, k), k)
    IN  (/\ st # 0
         /\ \/ foodst[st].active
            \/ \E k \in Suspended : k.pc = "next_round" /\ k.st = st) =>
            /\ ~R.foodst[st].active
            /\ \A k \in BagToSet(R.tasks), choice \in 1..MaxBank :
                  (k.kind \in FoodKinds /\ k.st = st) =>
                      LET E == Later(k, choice)
                      IN  /\ E.food = R.food /\ E.ledger = R.ledger
                          /\ Len(E.foodst) = Len(R.foodst)
                          /\ ~E.foodst[st].active
                          /\ E.foodst[st].round_index = R.foodst[st].round_index
                          /\ E.foodst[st].hints_used = R.foodst[st].hints_used

\* C39: once foodgame has started a new sequence in a guild, the coroutine of
\* an earlier sequence that wakes from its second of sleep to deal the next
\* round leaves the registry and the round of the new sequence as they are
\* and deals no round.
C39_StaleContinuationInert ==
    \A k \in Suspended, choice \in 1..MaxBank :
        LET cur == DictGet(food, k.gid)
        IN  (k.kind \in FoodKinds /\ k.pc = "next_round" /\ cur # k.st) =>
                LET E == food_next_round(Resume(k), k, choice)
                IN  /\ E.food = food
                    /\ Len(E.foodst) = Len(foodst)
                    /\ E.foodst[cur] = foodst[cur]

\* C40: a duel has at most one live round timer, and it is the task that
\* round_task holds.  Every round start that is about to create its timer
\* leaves exactly one live timer for the duel, the one it created, whatever
\* timer was live before and whichever other round start is under way.
C40_OneRoundTimer ==
    LET timers(S, st) == {x \in BagToSet(S.tasks) : x.kind = "round_loop" /\ x.st = st}
        one(S, st) == \A x \in timers(S, st) :
                          /\ x.id = S.duel[st].round_task
                          /\ CopiesIn(x, S.tasks) = 1
                          /\ \A y \in timers(S, st) : y.id = x.id => y = x
    IN  /\ \A st \in DOMAIN duel : one(Cur, st)
        /\ \A x \in Suspended :
              x.pc = "start_round" =>
                  LET N == start_round_timer(Resume(x), x.gid, x.st)
                  IN  /\ one(N, x.st)
                      /\ Cardinality(timers(N, x.st)) = 1
                      /\ BagCardinality(N.tasks) <= BagCardinality(tasks)

\* C40: two round starts of one duel are under way at once, the one of
\* duelaccept and the one of a resolution
C40_Witness ==
    \E x \in Suspended, y \in Suspended :
        /\ x.pc = "start_round" /\ y.pc = "start_round" /\ x.st = y.st
        /\ x.kind = "duelaccept" /\ y.kind = "on_message"


====
